---- MODULE Spec2Model ----
(***************************************************************************)
(* AgentProof: the proof chain engine of freya-tools.                      *)
(*                                                                         *)
(*   agentproof/src/keys.js    deriveAgentId, key decoding                 *)
(*   agentproof/src/proof.js   sortKeys, hashProofData, signProofData,     *)
(*                             createProof                                 *)
(*   agentproof/src/chain.js   ProofChain (unnamed/part_004, 481-683)      *)
(*   agentproof/src/verify.js  verifyProof, verifyChain                    *)
(*                             (unnamed/part_004, 685-922)                 *)
(*   agentproof/cli            cmdAdd (unnamed/part_004, 136-170)          *)
(*                                                                         *)
(* JavaScript values are modelled as tagged records of one shape,          *)
(*   [t |-> tag, s |-> text, kv |-> members]                               *)
(* where a text is a sequence of string tokens and the members of an       *)
(* object are kept in insertion order, as a JavaScript object keeps them.  *)
(* SHA-256 and Ed25519 are modelled as collision-free / unforgeable: a     *)
(* digest is the tagged preimage, a signature is the tagged pair of the    *)
(* signing key and the signed bytes.                                       *)
(***************************************************************************)
EXTENDS Integers, Sequences, FiniteSets, TLC

(***************************************************************************)
(* Bounds of the model.                                                    *)
(***************************************************************************)
MaxChain == 3
MaxAdds == 2

(***************************************************************************)
(* JavaScript values.                                                      *)
(***************************************************************************)
Undef == [t |-> "undef", s |-> <<>>, kv |-> <<>>]
Null == [t |-> "null", s |-> <<>>, kv |-> <<>>]
Str(text) == [t |-> "str", s |-> text, kv |-> <<>>]
Num(text) == [t |-> "num", s |-> text, kv |-> <<>>]
Obj(members) == [t |-> "obj", s |-> <<>>, kv |-> members]
Arr(members) == [t |-> "arr", s |-> <<>>, kv |-> members]
KV(key, val) == [k |-> key, v |-> val]

IsObject(v) == v.t \in {"obj", "arr"}

\* the elements of a JavaScript array, as a sequence
Elements(arr) == [i \in 1..Len(arr.kv) |-> arr.kv[i].v]
\* the array of a sequence of values
ArrayOf(seq) == Arr([i \in 1..Len(seq) |-> KV("", seq[i])])

\* obj[key]: the member's value, or undefined when the key is absent
Get(o, key) ==
  IF \E i \in 1..Len(o.kv) : o.kv[i].k = key
  THEN o.kv[CHOOSE i \in 1..Len(o.kv) : o.kv[i].k = key].v
  ELSE Undef

\* obj[key] = val: overwrite in place, or append a new member at the end
Put(o, key, val) ==
  IF \E i \in 1..Len(o.kv) : o.kv[i].k = key
  THEN [o EXCEPT !.kv = [i \in 1..Len(o.kv) |->
                           IF o.kv[i].k = key THEN KV(key, val) ELSE o.kv[i]]]
  ELSE [o EXCEPT !.kv = Append(o.kv, KV(key, val))]

\* delete obj[key]
Delete(o, key) ==
  LET keep == {i \in 1..Len(o.kv) : o.kv[i].k # key}
      nth(n) == CHOOSE i \in keep : Cardinality({j \in keep : j < i}) = n - 1
  IN [o EXCEPT !.kv = [n \in 1..Cardinality(keep) |-> o.kv[nth(n)]]]

\* a === b: strings, numbers, null and undefined compare by value; two
\* objects met in different places are different references
StrictEq(a, b) == (~IsObject(a)) /\ (~IsObject(b)) /\ a = b

(***************************************************************************)
(* proof.js: canonical JSON.                                               *)
(***************************************************************************)
\* Array.prototype.sort() on key names: the code-unit order of the key
\* names that occur in the model
KeyOrder ==
  <<"a", "action", "agentId", "agent_did", "agent_id", "attestations", "b",
    "broadcast", "c", "capabilities", "correlationId", "created", "data",
    "event", "extra", "features", "foo", "format", "from", "hash", "id",
    "initialized_at", "inner", "key_type", "metadata", "n", "name",
    "params", "payload", "prev_hash", "previousHash", "proof", "protocol",
    "publicKey", "public_key", "signature", "source", "timeout",
    "timestamp", "to", "tool", "type", "value", "version">>

KeyRank(key) == CHOOSE i \in 1..Len(KeyOrder) : KeyOrder[i] = key

RECURSIVE SortMembers(_)
SortMembers(members) ==
  IF members = <<>> THEN <<>>
  ELSE LET m == CHOOSE i \in 1..Len(members) :
                  \A j \in 1..Len(members) :
                      KeyRank(members[i].k) <= KeyRank(members[j].k)
           rest == [i \in 1..(Len(members) - 1) |->
                      IF i < m THEN members[i] ELSE members[i + 1]]
       IN <<members[m]>> \o SortMembers(rest)

\* the allow-list canonicalizer JSON.stringify(obj, Object.keys(obj).sort()):
\* at every depth only the keys of the top level are written
RECURSIVE KeepListed(_, _)
RECURSIVE KeepListedMembers(_, _)
KeepListedMembers(members, allow) ==
  IF members = <<>> THEN <<>>
  ELSE (IF Head(members).k \in allow
        THEN <<KV(Head(members).k, KeepListed(Head(members).v, allow))>>
        ELSE <<>>)
       \o KeepListedMembers(Tail(members), allow)
KeepListed(obj, allow) ==
  IF ~IsObject(obj) THEN obj
  ELSE IF obj.t = "arr"
  THEN Arr([i \in 1..Len(obj.kv) |-> KV(obj.kv[i].k, KeepListed(obj.kv[i].v, allow))])
  ELSE Obj(KeepListedMembers(SortMembers(obj.kv), allow))

sortKeysTopLevelAllowList(obj) ==
  IF ~IsObject(obj) THEN obj
  ELSE KeepListed(obj, {obj.kv[i].k : i \in 1..Len(obj.kv)})

\* only the keys of the record itself are sorted, nested objects are kept
\* as they were built
sortKeysTopLevelOnly(obj) ==
  IF ~IsObject(obj) \/ obj.t = "arr" THEN obj
  ELSE Obj(SortMembers(obj.kv))

\* no sorting at all: the members are written in insertion order
sortKeysKeepsOrder(obj) == obj

RECURSIVE sortKeys(_)
sortKeys(obj) ==
  IF ~IsObject(obj) THEN obj
  ELSE IF obj.t = "arr"
  THEN Arr([i \in 1..Len(obj.kv) |-> KV(obj.kv[i].k, sortKeys(obj.kv[i].v))])
  ELSE LET sorted == SortMembers(obj.kv)
       IN Obj([i \in 1..Len(sorted) |-> KV(sorted[i].k, sortKeys(sorted[i].v))])

\* JSON.stringify(value): the text as a sequence of tokens.  A member whose
\* value is undefined is omitted from an object and written as null in an
\* array.
RECURSIVE Stringify(_)
RECURSIVE StringifyMembers(_, _, _)
StringifyMembers(members, isArr, first) ==
  IF members = <<>> THEN <<>>
  ELSE LET m == Head(members)
       IN IF (~isArr) /\ m.v.t = "undef"
          THEN StringifyMembers(Tail(members), isArr, first)
          ELSE (IF first THEN <<>> ELSE <<",">>)
               \o (IF isArr THEN <<>> ELSE <<"\"", m.k, "\"", ":">>)
               \o Stringify(m.v)
               \o StringifyMembers(Tail(members), isArr, FALSE)

Stringify(v) ==
  CASE v.t = "str" -> <<"\"">> \o v.s \o <<"\"">>
    [] v.t = "num" -> v.s
    [] v.t = "null" -> <<"null">>
    [] v.t = "undef" -> <<"null">>
    [] v.t = "obj" -> <<"{">> \o StringifyMembers(v.kv, FALSE, TRUE) \o <<"}">>
    [] v.t = "arr" -> <<"[">> \o StringifyMembers(v.kv, TRUE, TRUE) \o <<"]">>

\* JSON.parse(JSON.stringify(value)): what a value is after it went through
\* a file
RECURSIVE JsonRoundTrip(_)
RECURSIVE RoundTripMembers(_, _)
RoundTripMembers(members, isArr) ==
  IF members = <<>> THEN <<>>
  ELSE LET m == Head(members)
       IN IF m.v.t = "undef"
          THEN (IF isArr THEN <<KV(m.k, Null)>> ELSE <<>>)
               \o RoundTripMembers(Tail(members), isArr)
          ELSE <<KV(m.k, JsonRoundTrip(m.v))>>
               \o RoundTripMembers(Tail(members), isArr)

JsonRoundTrip(v) ==
  IF ~IsObject(v) THEN v
  ELSE [v EXCEPT !.kv = RoundTripMembers(v.kv, v.t = "arr")]

(***************************************************************************)
(* keys.js and node:crypto.                                                *)
(***************************************************************************)
Identities == {"A", "B"}

publicKeyOf(id) == Str(<<"spki", id>>)
privateKeyOf(id) == Str(<<"pkcs8", id>>)

\* crypto.createHash('sha256').update(text).digest('hex')
Sha256Hex(text) == <<"sha256">> \o text

\* generateKeypair(): the keypair of an identity
generateKeypair(id) == [publicKey |-> publicKeyOf(id), privateKey |-> privateKeyOf(id)]

\* publicKeyFromBase64 throws on anything that is not a DER public key
IsPublicKey(key) == \E id \in Identities : key = publicKeyOf(id)

\* crypto.sign(null, bytes, key).toString('base64')
Ed25519Sign(bytes, privateKey) == <<"ed25519", privateKey.s[2]>> \o bytes

\* crypto.verify(null, bytes, key, signature)
Ed25519Verify(bytes, publicKey, signature) ==
  signature = <<"ed25519", publicKey.s[2]>> \o bytes

deriveAgentId(publicKey) == Str(<<"agent-">> \o Sha256Hex(publicKey.s))

(***************************************************************************)
(* proof.js: building a proof.                                             *)
(***************************************************************************)
PROOF_VERSION == Str(<<"1.0">>)

DigitTokens == <<"0", "1", "2", "3", "4", "5", "6", "7", "8", "9">>

RECURSIVE Digits(_)
Digits(n) ==
  IF n < 10 THEN <<DigitTokens[n + 1]>>
  ELSE Digits(n \div 10) \o <<DigitTokens[(n % 10) + 1]>>

\* new Date(seconds).toISOString()
toISOString(n) == Str(<<"T">> \o Digits(n))

NaN == -1

RECURSIVE ParseDigits(_, _)
ParseDigits(text, acc) ==
  IF text = <<>> THEN acc
  ELSE IF \E d \in 1..10 : DigitTokens[d] = Head(text)
  THEN ParseDigits(Tail(text),
                   acc * 10 + (CHOOSE d \in 1..10 : DigitTokens[d] = Head(text)) - 1)
  ELSE NaN

\* new Date(value).getTime(): NaN for what is not a date string
getTime(v) ==
  IF v.t = "str" /\ Len(v.s) >= 2 /\ v.s[1] = "T"
  THEN ParseDigits(Tail(v.s), 0)
  ELSE NaN

createProofData(action, data, agentId, previousHash, metadata, now) ==
  Obj(<<KV("version", PROOF_VERSION),
        KV("action", action),
        KV("data", data),
        KV("agentId", agentId),
        KV("previousHash", previousHash),
        KV("timestamp", toISOString(now)),
        KV("metadata", metadata)>>)

hashProofData(proofData) == Sha256Hex(Stringify(sortKeys(proofData)))

signProofData(proofData, privateKey) ==
  Ed25519Sign(Stringify(sortKeys(proofData)), privateKey)

\* privateKeyFromBase64(privateKey) is Buffer.from(privateKey, 'base64'),
\* which throws this TypeError on what is not a string
ERR_INVALID_ARG_TYPE == [name |-> "TypeError", code |-> "ERR_INVALID_ARG_TYPE"]
signProofDataThrows(privateKey) == privateKey.t # "str"

\* the hash taken of the record as built, without sorting its keys
createProofUnsortedHash(action, data, agentId, previousHash, metadata, now, privateKey) ==
  LET proofData == createProofData(action, data, agentId, previousHash, metadata, now)
  IN Obj(proofData.kv \o
         <<KV("hash", Str(Sha256Hex(Stringify(proofData)))),
           KV("signature", Str(signProofData(proofData, privateKey)))>>)

createProof(action, data, agentId, previousHash, metadata, now, privateKey) ==
  LET proofData == createProofData(action, data, agentId, previousHash, metadata, now)
  IN Obj(proofData.kv \o
         <<KV("hash", Str(hashProofData(proofData))),
           KV("signature", Str(signProofData(proofData, privateKey)))>>)

(***************************************************************************)
(* verify.js.                                                              *)
(***************************************************************************)
\* tolerances of the timestamp checks, in seconds
FutureTolerance == 60
OrderTolerance == 1

\* the rebuilt record without its metadata
ReconstructProofDataNoMetadata(proof) ==
  Obj(<<KV("version", Get(proof, "version")),
        KV("action", Get(proof, "action")),
        KV("data", Get(proof, "data")),
        KV("agentId", Get(proof, "agentId")),
        KV("previousHash", Get(proof, "previousHash")),
        KV("timestamp", Get(proof, "timestamp"))>>)

\* the seven fields verifyHash and verifySignature rebuild the signed
\* record from
ReconstructProofData(proof) ==
  Obj(<<KV("version", Get(proof, "version")),
        KV("action", Get(proof, "action")),
        KV("data", Get(proof, "data")),
        KV("agentId", Get(proof, "agentId")),
        KV("previousHash", Get(proof, "previousHash")),
        KV("timestamp", Get(proof, "timestamp")),
        KV("metadata", Get(proof, "metadata"))>>)

verifySignature(proof, publicKey) ==
  LET canonical == Stringify(sortKeys(ReconstructProofData(proof)))
      signature == Get(proof, "signature")
  IN /\ IsPublicKey(publicKey)
     /\ signature.t = "str"
     /\ Ed25519Verify(canonical, publicKey, signature.s)

verifyHash(proof) ==
  StrictEq(Str(hashProofData(ReconstructProofData(proof))), Get(proof, "hash"))

verifyAgentId(proof, publicKey) ==
  StrictEq(Get(proof, "agentId"), deriveAgentId(publicKey))

RequiredFields ==
  <<"version", "action", "data", "agentId", "timestamp", "hash", "signature">>

\* the elements of seq that are in keep, in order
RECURSIVE Filter(_, _)
Filter(seq, keep) ==
  IF seq = <<>> THEN <<>>
  ELSE (IF Head(seq) \in keep THEN <<Head(seq)>> ELSE <<>>) \o Filter(Tail(seq), keep)

\* a result that a warning makes invalid too
ResultNoWarnings(errors, warnings) ==
  [valid |-> errors = <<>> /\ warnings = <<>>, errors |-> errors,
   warnings |-> warnings]

Result(errors, warnings) ==
  [valid |-> errors = <<>>, errors |-> errors, warnings |-> warnings]

\* a verifier that checks the fields and the hash but not the key
verifyProofIntegrityOnly(proof, publicKey, now) ==
  LET missing == Filter(RequiredFields,
                        {f \in {RequiredFields[i] : i \in 1..Len(RequiredFields)} :
                            Get(proof, f) = Undef})
      errors == IF ~verifyHash(proof) THEN <<<<"hash_mismatch">>>> ELSE <<>>
  IN IF missing # <<>>
     THEN [valid |-> FALSE,
           errors |-> [i \in 1..Len(missing) |-> <<"missing_field", missing[i]>>],
           warnings |-> <<>>]
     ELSE Result(errors, <<>>)

verifyProof(proof, publicKey, now) ==
  LET missing == Filter(RequiredFields,
                        {f \in {RequiredFields[i] : i \in 1..Len(RequiredFields)} :
                            Get(proof, f) = Undef})
      errors ==
        (IF ~verifyAgentId(proof, publicKey) THEN <<<<"agent_id_mismatch">>>> ELSE <<>>)
        \o (IF ~verifyHash(proof) THEN <<<<"hash_mismatch">>>> ELSE <<>>)
        \o (IF ~verifySignature(proof, publicKey) THEN <<<<"signature_invalid">>>> ELSE <<>>)
      proofTime == getTime(Get(proof, "timestamp"))
      warnings ==
        IF proofTime # NaN /\ proofTime > now + FutureTolerance
        THEN <<<<"timestamp_in_future">>>> ELSE <<>>
  IN IF missing # <<>>
     THEN [valid |-> FALSE,
           errors |-> [i \in 1..Len(missing) |-> <<"missing_field", missing[i]>>],
           warnings |-> <<>>]
     ELSE Result(errors, warnings)

\* one entry of the errors or warnings array of verifyChain; index is the
\* proof index the message names (-1: none), details the joined messages
Entry(kind, index, details) == [kind |-> kind, index |-> index, details |-> details]

\* every message of a proof pushed as an entry of its own
RECURSIVE ProofEntriesUnjoined(_, _, _, _, _)
ProofEntriesUnjoined(proofs, publicKey, now, i, wantErrors) ==
  IF i > Len(proofs) THEN <<>>
  ELSE LET result == verifyProof(proofs[i], publicKey, now)
           msgs == IF wantErrors THEN result.errors ELSE result.warnings
       IN [j \in 1..Len(msgs) |-> Entry("proof", i - 1, <<msgs[j]>>)]
          \o ProofEntriesUnjoined(proofs, publicKey, now, i + 1, wantErrors)

RECURSIVE ProofEntries(_, _, _, _, _)
ProofEntries(proofs, publicKey, now, i, wantErrors) ==
  IF i > Len(proofs) THEN <<>>
  ELSE LET result == verifyProof(proofs[i], publicKey, now)
           here == IF wantErrors
                   THEN (IF ~result.valid
                         THEN <<Entry("proof", i - 1, result.errors)>> ELSE <<>>)
                   ELSE (IF Len(result.warnings) > 0
                         THEN <<Entry("proof", i - 1, result.warnings)>> ELSE <<>>)
       IN here \o ProofEntries(proofs, publicKey, now, i + 1, wantErrors)

\* the linkage loop naming proofs from one instead of from zero
RECURSIVE LinkEntriesOneBased(_, _, _)
LinkEntriesOneBased(proofs, i, wantErrors) ==
  IF i > Len(proofs) THEN <<>>
  ELSE LET prev == proofs[i - 1]
           curr == proofs[i]
           prevTime == getTime(Get(prev, "timestamp"))
           currTime == getTime(Get(curr, "timestamp"))
           here == IF wantErrors
                   THEN (IF ~StrictEq(Get(curr, "previousHash"), Get(prev, "hash"))
                         THEN <<Entry("chain_break", i, <<>>)>> ELSE <<>>)
                   ELSE (IF prevTime # NaN /\ currTime # NaN
                            /\ currTime < prevTime - OrderTolerance
                         THEN <<Entry("earlier_timestamp", i, <<>>)>> ELSE <<>>)
       IN here \o LinkEntriesOneBased(proofs, i + 1, wantErrors)

\* the ordering check with the tolerance of the future-timestamp check
RECURSIVE LinkEntriesMinuteTolerance(_, _, _)
LinkEntriesMinuteTolerance(proofs, i, wantErrors) ==
  IF i > Len(proofs) THEN <<>>
  ELSE LET prev == proofs[i - 1]
           curr == proofs[i]
           prevTime == getTime(Get(prev, "timestamp"))
           currTime == getTime(Get(curr, "timestamp"))
           here == IF wantErrors
                   THEN (IF ~StrictEq(Get(curr, "previousHash"), Get(prev, "hash"))
                         THEN <<Entry("chain_break", i - 1, <<>>)>> ELSE <<>>)
                   ELSE (IF prevTime # NaN /\ currTime # NaN
                            /\ currTime < prevTime - FutureTolerance
                         THEN <<Entry("earlier_timestamp", i - 1, <<>>)>> ELSE <<>>)
       IN here \o LinkEntriesMinuteTolerance(proofs, i + 1, wantErrors)

RECURSIVE LinkEntries(_, _, _)
LinkEntries(proofs, i, wantErrors) ==
  IF i > Len(proofs) THEN <<>>
  ELSE LET prev == proofs[i - 1]
           curr == proofs[i]
           prevTime == getTime(Get(prev, "timestamp"))
           currTime == getTime(Get(curr, "timestamp"))
           here == IF wantErrors
                   THEN (IF ~StrictEq(Get(curr, "previousHash"), Get(prev, "hash"))
                         THEN <<Entry("chain_break", i - 1, <<>>)>> ELSE <<>>)
                   ELSE (IF prevTime # NaN /\ currTime # NaN
                            /\ currTime < prevTime - OrderTolerance
                         THEN <<Entry("earlier_timestamp", i - 1, <<>>)>> ELSE <<>>)
       IN here \o LinkEntries(proofs, i + 1, wantErrors)

\* new Set(proofs.map(p => p.agentId)).size
AgentIdCount(proofs) ==
  Cardinality({Get(proofs[i], "agentId") : i \in {j \in 1..Len(proofs) :
                                               ~IsObject(Get(proofs[j], "agentId"))}})
  + Cardinality({j \in 1..Len(proofs) : IsObject(Get(proofs[j], "agentId"))})

\* a chain verification that checks every proof and not the links
verifyChainWithoutLinkage(proofs, publicKey, now) ==
  IF Len(proofs) = 0
  THEN [valid |-> TRUE, errors |-> <<>>,
        warnings |-> <<Entry("empty_chain", -1, <<>>)>>]
  ELSE LET errors ==
             ProofEntries(proofs, publicKey, now, 1, TRUE)
             \o (IF AgentIdCount(proofs) > 1
                 THEN <<Entry("multiple_agents", -1, <<>>)>> ELSE <<>>)
           warnings ==
             ProofEntries(proofs, publicKey, now, 1, FALSE)
             \o (IF Get(proofs[1], "previousHash") # Null
                 THEN <<Entry("first_previousHash_not_null", 0, <<>>)>> ELSE <<>>)
             \o LinkEntries(proofs, 2, FALSE)
       IN Result(errors, warnings)

verifyChain(proofs, publicKey, now) ==
  IF Len(proofs) = 0
  THEN [valid |-> TRUE, errors |-> <<>>,
        warnings |-> <<Entry("empty_chain", -1, <<>>)>>]
  ELSE LET errors ==
             ProofEntries(proofs, publicKey, now, 1, TRUE)
             \o LinkEntries(proofs, 2, TRUE)
             \o (IF AgentIdCount(proofs) > 1
                 THEN <<Entry("multiple_agents", -1, <<>>)>> ELSE <<>>)
           warnings ==
             ProofEntries(proofs, publicKey, now, 1, FALSE)
             \o (IF Get(proofs[1], "previousHash") # Null
                 THEN <<Entry("first_previousHash_not_null", 0, <<>>)>> ELSE <<>>)
             \o LinkEntries(proofs, 2, FALSE)
       IN Result(errors, warnings)

\* !value
Falsy(v) == v.t \in {"undef", "null"} \/ v = Str(<<>>) \/ v = Num(<<"0">>)

verifyExportedChain(exportedChain, now) ==
  LET publicKey == Get(Get(exportedChain, "metadata"), "publicKey")
  IN IF Falsy(publicKey)
     THEN [valid |-> FALSE,
           errors |-> <<Entry("missing_public_key", -1, <<>>)>>,
           warnings |-> <<>>]
     ELSE verifyChain(Elements(Get(exportedChain, "proofs")), publicKey, now)

(***************************************************************************)
(* verify.js: the inputs on which a verifier does not return but throws.   *)
(***************************************************************************)
\* reading a property of null or undefined is a TypeError
IsNullish(v) == v.t \in {"undef", "null"}

\* hash.update(publicKey) accepts a string or a buffer and throws
\* ERR_INVALID_ARG_TYPE on anything else
deriveAgentIdThrows(publicKey) == publicKey.t # "str"

\* verifyProof: proof[field] in the required fields loop, then
\* verifyAgentId, which is outside every try block; verifySignature
\* catches what it throws
verifyProofThrows(proof, publicKey) ==
  \/ IsNullish(proof)
  \/ /\ \A i \in 1..Len(RequiredFields) : Get(proof, RequiredFields[i]) # Undef
     /\ deriveAgentIdThrows(publicKey)

\* verifyChain(proofs, publicKey), proofs being any value: proofs.length of
\* null or undefined; verifyProof of an element; proofs[0].previousHash
\* where proofs has no element 0; proofs.map where proofs is a string
verifyChainThrows(proofs, publicKey) ==
  CASE IsNullish(proofs) -> TRUE
    [] proofs.t = "arr" ->
         \E i \in 1..Len(proofs.kv) : verifyProofThrows(proofs.kv[i].v, publicKey)
    [] proofs.t = "str" -> proofs.s # <<>>
    [] OTHER -> TRUE

\* verifyExportedChain(exportedChain): exportedChain.metadata of null or
\* undefined, then verifyChain
verifyExportedChainThrows(exportedChain) ==
  LET publicKey == Get(Get(exportedChain, "metadata"), "publicKey")
  IN \/ IsNullish(exportedChain)
     \/ /\ ~Falsy(publicKey)
        /\ verifyChainThrows(Get(exportedChain, "proofs"), publicKey)

\* what a call left behind: the result it returned, or nothing when it
\* threw
NoResult == [valid |-> FALSE, errors |-> <<>>, warnings |-> <<>>]
Outcome(throws, result) == IF throws THEN NoResult ELSE result

(***************************************************************************)
(* State.                                                                  *)
(***************************************************************************)
VARIABLES
  clock,      \* Date.now(), in seconds; it changes when the system clock
              \* is set
  file,       \* the chain file at the store path
  chain,      \* the ProofChain instance of each writer process
  returned,   \* the proofs that completed add calls returned, in order
  subject,    \* an exported chain in the hands of a third party
  tampered,   \* what the third party changed in subject
  last,       \* the last verification call and its result
  snapshot,   \* the object an export() call returned, held in the same
              \* process as the chain
  addError,   \* the exception the last failed add call threw
  canon,      \* two payloads and what the canonicalizer made of them
  identity,   \* the identity files on disk and the last attempt to write one
  agent,      \* an Agent's knownAgents map and the last message it processed
  retry,      \* a RetryClient, its cache and the fetch call in progress
  contract,   \* a record signed under the proof and the message contract
  envelopes   \* two proof envelopes and their envelope hashes

vars == <<clock, file, chain, returned, subject, tampered, last, snapshot,
          addError, canon,
          identity, agent, retry, contract, envelopes>>

Writers == {"w1", "w2"}

ActionInputs == {Str(<<"decision">>), Str(<<"tool_call">>)}

DataFoo == Obj(<<KV("foo", Str(<<"bar">>))>>)
DataNested ==
  Obj(<<KV("n", Num(<<"1">>)),
        KV("inner", Obj(<<KV("value", Str(<<"x">>))>>))>>)
AddInputs ==
  {<<Str(<<"decision">>), DataFoo>>, <<Str(<<"tool_call">>), DataNested>>}

NoFile == [exists |-> FALSE, len |-> 0, of |-> Null]
NoChain ==
  [state |-> "none", storePath |-> FALSE,
   keypair |-> [publicKey |-> Null, privateKey |-> Null], agentId |-> Null,
   proofs |-> <<>>, metadata |-> Null]
NoSubject == Null
NotTampered == [kind |-> "none", index |-> -1, field |-> ""]
NoSnapshot == [held |-> FALSE, w |-> "none", shared |-> FALSE, value |-> Null]
NoError == [w |-> "none", name |-> "", code |-> ""]
NoCanon == [a |-> Null, b |-> Null, done |-> FALSE,
            sortedA |-> Null, sortedB |-> Null,
            bytesA |-> <<>>, bytesB |-> <<>>, hashA |-> <<>>, hashB |-> <<>>]
NoCall == [fn |-> "none", index |-> -1, publicKey |-> Null, now |-> 0,
           threw |-> FALSE,
           out |-> [valid |-> TRUE, errors |-> <<>>, warnings |-> <<>>]]

\* the new variables before anything has used them
KeyPaths == {"keypair.json", "private.key"}
NoKeyFile ==
  [exists |-> FALSE, keypair |-> [publicKey |-> Null, privateKey |-> Null],
   chain |-> <<>>]
NoAttempt ==
  [op |-> "none", path |-> "none", existed |-> FALSE, before |-> NoKeyFile,
   rejected |-> FALSE]
NoIdentity == [files |-> [p \in KeyPaths |-> NoKeyFile], attempt |-> NoAttempt]
\* getAgentId: the leading bytes of the hash of the key, in base64
getAgentId(publicKeyBase64) == Str(<<"id-">> \o Sha256Hex(publicKeyBase64.s))

AgentIds == {getAgentId(publicKeyOf(id)) : id \in Identities}
NotKnown == [known |-> FALSE, publicKey |-> Undef, name |-> Undef]
NoMessage ==
  [from |-> "none", type |-> "none", signer |-> "none", greeted |-> FALSE,
   before |-> NotKnown, after |-> NotKnown,
   error |-> "null", dispatched |-> "none", response |-> "none"]

\* new Agent(): no agent is known, no handler is registered
NoAgent ==
  [knownAgents |-> [a \in AgentIds |-> NotKnown], handlers |-> {},
   greeted |-> {}, handled |-> NoMessage]
\* before a RetryClient is constructed; the cache directory is empty
NoRetry ==
  [state |-> "none", n |-> 0, maxRetries |-> 0, method |-> "none",
   attempt |-> 0, attempts |-> 0, lastOutcome |-> "none", fromCache |-> FALSE,
   cache |-> "none"]
NoContract == Null
NoEnvelopes == Null

chainVars ==
  <<clock, file, chain, returned, subject, tampered, last, snapshot, addError,
    canon>>

Init ==
  /\ clock = 0
  /\ file = NoFile
  /\ chain = [w \in Writers |-> NoChain]
  /\ returned = <<>>
  /\ subject = NoSubject
  /\ tampered = NotTampered
  /\ last = NoCall
  /\ snapshot = NoSnapshot
  /\ addError = NoError
  /\ canon = NoCanon
  /\ identity = NoIdentity
  /\ agent = NoAgent
  /\ retry = NoRetry
  /\ contract = NoContract
  /\ envelopes = NoEnvelopes

(***************************************************************************)
(* chain.js: ProofChain.                                                   *)
(***************************************************************************)
\* the private key written out with the chain
ChainDataWithKeypair(c) ==
  Obj(<<KV("metadata", Put(c.metadata, "privateKey", c.keypair.privateKey)),
        KV("proofs", ArrayOf(c.proofs))>>)

\* { metadata, proofs } as save() and export() build it
ChainData(c) ==
  Obj(<<KV("metadata", c.metadata), KV("proofs", ArrayOf(c.proofs))>>)

\* JSON.parse(fs.readFileSync(path)) succeeds on a complete JSON text only
Parses(f) == f.len = Len(Stringify(f.of))
JsonParse(f) == JsonRoundTrip(f.of)

\* value || fallback
OrElse(v, fallback) == IF v.t \in {"undef", "null"} THEN fallback ELSE v

\* a load that takes the metadata of the file and leaves the proofs
loadMetadataOnly(c, f) ==
  IF (~c.storePath) \/ (~f.exists) THEN c
  ELSE LET data == JsonParse(f)
       IN [c EXCEPT !.metadata = OrElse(Get(data, "metadata"), c.metadata)]

\* ProofChain.load()
load(c, f) ==
  IF (~c.storePath) \/ (~f.exists) THEN c
  ELSE LET data == JsonParse(f)
       IN [c EXCEPT !.metadata = OrElse(Get(data, "metadata"), c.metadata),
                    !.proofs = Elements(OrElse(Get(data, "proofs"), Arr(<<>>)))]

\* fs.writeFileSync(path, JSON.stringify(data)): the file is truncated and
\* then written; a crash in between leaves the first cut tokens of the
\* text.  The file is kept as the value being written and the number of
\* tokens of its text that reached the disk.
CutPoints(text) == {0, Len(text) \div 2}
WriteFile(data, cut) == [exists |-> TRUE, len |-> cut, of |-> data]
WriteFileSync(data) == WriteFile(data, Len(Stringify(data)))

\* the link taken from the wrong field of the last proof
getLastHashWrongField(c) ==
  IF Len(c.proofs) = 0 THEN Null ELSE Get(c.proofs[Len(c.proofs)], "previousHash")

getLastHash(c) ==
  IF Len(c.proofs) = 0 THEN Null ELSE Get(c.proofs[Len(c.proofs)], "hash")

\* what becomes of the object export() returned when the instance w
\* assigns a new array to this.proofs, and when the process of w ends
Detached(w) == IF snapshot.w = w THEN [snapshot EXCEPT !.shared = FALSE] ELSE snapshot
Dropped(w) == IF snapshot.w = w THEN NoSnapshot ELSE snapshot

\* new ProofChain(keypair, storePath): a process opens the chain
Construct(w, id, withStore) ==
  /\ chain[w].state # "open"
  /\ LET fresh == [state |-> "open", storePath |-> withStore,
                   keypair |-> generateKeypair(id),
                   agentId |-> deriveAgentId(publicKeyOf(id)),
                   proofs |-> <<>>,
                   metadata |-> Obj(<<KV("created", toISOString(clock)),
                                      KV("agentId", deriveAgentId(publicKeyOf(id))),
                                      KV("publicKey", publicKeyOf(id))>>)]
     IN /\ (withStore /\ file.exists) => Parses(file)
        /\ chain' = [chain EXCEPT ![w] = load(fresh, file)]
  /\ UNCHANGED <<clock, file, returned, subject, tampered, last, snapshot,
                 addError, canon,
                 identity, agent, retry, contract, envelopes>>

\* ProofChain.add({action, data}): build, push, save, return.  createProof
\* throws before the push when the private key cannot be decoded.  The
\* push is into the array this.proofs names, which is also the array of an
\* object export() returned earlier.
Add(w, action, data) ==
  /\ chain[w].state = "open"
  /\ Len(chain[w].proofs) < MaxChain
  /\ LET c == chain[w]
         proof == createProof(action, data, c.agentId, getLastHash(c), Obj(<<>>),
                              clock, c.keypair.privateKey)
         pushed == [c EXCEPT !.proofs = Append(c.proofs, proof)]
     IN IF signProofDataThrows(c.keypair.privateKey)
        THEN /\ addError' = [w |-> w, name |-> ERR_INVALID_ARG_TYPE.name,
                             code |-> ERR_INVALID_ARG_TYPE.code]
             /\ UNCHANGED <<chain, file, returned, snapshot>>
        ELSE /\ chain' = [chain EXCEPT ![w] = pushed]
             /\ file' = IF c.storePath THEN WriteFileSync(ChainData(pushed)) ELSE file
             /\ returned' = Append(returned, [w |-> w, proof |-> proof])
             /\ snapshot' = IF snapshot.w = w /\ snapshot.shared
                            THEN [snapshot EXCEPT
                                    !.value = Put(snapshot.value, "proofs",
                                                  ArrayOf(pushed.proofs))]
                            ELSE snapshot
             /\ UNCHANGED addError
  /\ UNCHANGED <<clock, subject, tampered, last, canon,
                 identity, agent, retry, contract, envelopes>>

\* the process dies inside the writeFileSync of add's save()
AddCrash(w, action, data) ==
  /\ chain[w].state = "open"
  /\ chain[w].storePath
  /\ ~signProofDataThrows(chain[w].keypair.privateKey)
  /\ Len(chain[w].proofs) < MaxChain
  /\ LET c == chain[w]
         proof == createProof(action, data, c.agentId, getLastHash(c), Obj(<<>>),
                              clock, c.keypair.privateKey)
         pushed == [c EXCEPT !.proofs = Append(c.proofs, proof)]
     IN \E cut \in CutPoints(Stringify(ChainData(pushed))) :
          /\ file' = WriteFile(ChainData(pushed), cut)
          /\ chain' = [chain EXCEPT ![w] = [NoChain EXCEPT !.state = "crashed"]]
  /\ snapshot' = Dropped(w)
  /\ UNCHANGED <<clock, returned, subject, tampered, last, addError, canon,
                 identity, agent, retry, contract, envelopes>>

\* ProofChain.save(), called directly
Save(w) ==
  /\ chain[w].state = "open"
  /\ chain[w].storePath
  /\ file' = WriteFileSync(ChainData(chain[w]))
  /\ UNCHANGED <<clock, chain, returned, subject, tampered, last, snapshot,
                 addError, canon,
                 identity, agent, retry, contract, envelopes>>

\* ProofChain.load(), called directly; a file that does not parse throws
\* before anything is assigned
Load(w) ==
  /\ chain[w].state = "open"
  /\ chain[w].storePath
  /\ file.exists /\ Parses(file)
  /\ chain' = [chain EXCEPT ![w] = load(chain[w], file)]
  /\ snapshot' = Detached(w)
  /\ UNCHANGED <<clock, file, returned, subject, tampered, last, addError, canon,
                 identity, agent, retry, contract, envelopes>>

\* the writer process ends (cmdAdd returns)
Exit(w) ==
  /\ chain[w].state = "open"
  /\ chain' = [chain EXCEPT ![w] = NoChain]
  /\ snapshot' = Dropped(w)
  /\ UNCHANGED <<clock, file, returned, subject, tampered, last, addError, canon,
                 identity, agent, retry, contract, envelopes>>

\* ProofChain.export(), serialized and handed to a third party
Export(w) ==
  /\ chain[w].state = "open"
  /\ subject' = JsonRoundTrip(ChainData(chain[w]))
  /\ tampered' = NotTampered
  /\ last' = NoCall
  /\ UNCHANGED <<clock, file, chain, returned, snapshot, addError, canon,
                 identity, agent, retry, contract, envelopes>>

Next ==
  \/ \E w \in Writers : Construct(w, "A", TRUE)
  \/ Len(returned) < MaxAdds /\ \E w \in Writers, a \in ActionInputs : Add(w, a, DataFoo)
  \/ \E w \in Writers, a \in ActionInputs : AddCrash(w, a, DataFoo)
  \/ \E w \in Writers : Save(w)
  \/ \E w \in Writers : Load(w)
  \/ \E w \in Writers : Exit(w)


Spec == Init /\ [][Next]_vars

(***************************************************************************)
(* A third party: it holds an exported chain, may change it, and verifies  *)
(* it (retryclient/index.js 345-415, agent-quickcheck/test/test.js 52-79). *)
(***************************************************************************)
SubjectProofs == Elements(Get(subject, "proofs"))
OwnerKey == Get(Get(subject, "metadata"), "publicKey")

\* subject.proofs[k] = proof
WithProof(k, proof) ==
  Put(subject, "proofs",
      ArrayOf([i \in 1..Len(SubjectProofs) |->
                 IF i = k + 1 THEN proof ELSE SubjectProofs[i]]))

ProofFields ==
  {"version", "action", "data", "agentId", "previousHash", "timestamp",
   "metadata", "hash", "signature"}

\* the changes a third party tries: every field set to a string it did not
\* hold, and previousHash also set to null
TamperInputs ==
  {<<f, Str(<<"tampered">>)>> : f \in ProofFields} \cup {<<"previousHash", Null>>}

\* subject.proofs[k][field] = value, for a field the proof has
TamperField(k, field, value) ==
  /\ subject # NoSubject
  /\ tampered = NotTampered
  /\ k + 1 \in 1..Len(SubjectProofs)
  /\ Get(SubjectProofs[k + 1], field) # Undef
  /\ Get(SubjectProofs[k + 1], field) # value
  /\ subject' = WithProof(k, Put(SubjectProofs[k + 1], field, value))
  /\ tampered' = [kind |-> "field", index |-> k, field |-> field]
  /\ last' = NoCall
  /\ UNCHANGED <<clock, file, chain, returned, snapshot, addError, canon,
                 identity, agent, retry, contract, envelopes>>

\* subject.proofs[k].data.foo = 'tampered'
TamperDataFoo(k) ==
  /\ subject # NoSubject
  /\ tampered = NotTampered
  /\ k + 1 \in 1..Len(SubjectProofs)
  /\ LET proof == SubjectProofs[k + 1]
         data == Get(proof, "data")
     IN subject' = WithProof(k, Put(proof, "data", Put(data, "foo", Str(<<"tampered">>))))
  /\ tampered' = [kind |-> "deep", index |-> k, field |-> "foo"]
  /\ last' = NoCall
  /\ UNCHANGED <<clock, file, chain, returned, snapshot, addError, canon,
                 identity, agent, retry, contract, envelopes>>

\* subject.proofs[k].data.inner.value = 'tampered', two levels inside data
TamperDataInnerValue(k) ==
  /\ subject # NoSubject
  /\ tampered = NotTampered
  /\ k + 1 \in 1..Len(SubjectProofs)
  /\ LET proof == SubjectProofs[k + 1]
         data == Get(proof, "data")
         inner == Get(data, "inner")
     IN /\ inner.t = "obj"
        /\ subject' = WithProof(k, Put(proof, "data",
                        Put(data, "inner", Put(inner, "value", Str(<<"tampered">>)))))
  /\ tampered' = [kind |-> "deep", index |-> k, field |-> "value"]
  /\ last' = NoCall
  /\ UNCHANGED <<clock, file, chain, returned, snapshot, addError, canon,
                 identity, agent, retry, contract, envelopes>>

\* subject.proofs[k].extra = 'tampered': a field the proof did not have
AddField(k) ==
  /\ subject # NoSubject
  /\ tampered = NotTampered
  /\ k + 1 \in 1..Len(SubjectProofs)
  /\ Get(SubjectProofs[k + 1], "extra") = Undef
  /\ subject' = WithProof(k, Put(SubjectProofs[k + 1], "extra", Str(<<"tampered">>)))
  /\ tampered' = [kind |-> "add", index |-> k, field |-> "extra"]
  /\ last' = NoCall
  /\ UNCHANGED <<clock, file, chain, returned, snapshot, addError, canon,
                 identity, agent, retry, contract, envelopes>>

\* verifyProof(subject.proofs[k], publicKey)
VerifyProof(k, publicKey) ==
  /\ subject # NoSubject
  /\ last = NoCall
  /\ k + 1 \in 1..Len(SubjectProofs)
  /\ LET proof == SubjectProofs[k + 1]
         throws == verifyProofThrows(proof, publicKey)
     IN last' = [fn |-> "verifyProof", index |-> k, publicKey |-> publicKey, now |-> clock,
                 threw |-> throws,
                 out |-> Outcome(throws, verifyProof(proof, publicKey, clock))]
  /\ UNCHANGED <<clock, file, chain, returned, subject, tampered, snapshot,
                 addError, canon,
                 identity, agent, retry, contract, envelopes>>

\* verifyChain(subject.proofs, publicKey)
VerifyChain(publicKey) ==
  /\ subject # NoSubject
  /\ last = NoCall
  /\ LET throws == verifyChainThrows(Get(subject, "proofs"), publicKey)
     IN last' = [fn |-> "verifyChain", index |-> -1, publicKey |-> publicKey, now |-> clock,
                 threw |-> throws,
                 out |-> Outcome(throws, verifyChain(SubjectProofs, publicKey, clock))]
  /\ UNCHANGED <<clock, file, chain, returned, subject, tampered, snapshot,
                 addError, canon,
                 identity, agent, retry, contract, envelopes>>

VerifyExportedChain ==
  /\ subject # NoSubject
  /\ last = NoCall
  /\ LET throws == verifyExportedChainThrows(subject)
     IN last' = [fn |-> "verifyExportedChain", index |-> -1, publicKey |-> OwnerKey, now |-> clock,
                 threw |-> throws,
                 out |-> Outcome(throws, verifyExportedChain(subject, clock))]
  /\ UNCHANGED <<clock, file, chain, returned, subject, tampered, snapshot,
                 addError, canon,
                 identity, agent, retry, contract, envelopes>>

\* the scenario of the tests: one chain without a store path is built and
\* exported; a third party changes at most one thing in it and makes one
\* verification call
NextVerify ==
  \/ Construct("w1", "A", FALSE)
  \/ subject = NoSubject /\ \E in \in AddInputs : Add("w1", in[1], in[2])
  \/ subject = NoSubject /\ Export("w1")
  \/ \E k \in 0..(MaxChain - 1), in \in TamperInputs : TamperField(k, in[1], in[2])
  \/ \E k \in 0..(MaxChain - 1) : TamperDataFoo(k)
  \/ \E k \in 0..(MaxChain - 1) : TamperDataInnerValue(k)
  \/ \E k \in 0..(MaxChain - 1) : AddField(k)
  \/ \E k \in 0..(MaxChain - 1), id \in Identities : VerifyProof(k, publicKeyOf(id))
  \/ \E id \in Identities : VerifyChain(publicKeyOf(id))
  \/ VerifyExportedChain

SpecVerify == Init /\ [][NextVerify]_vars

(***************************************************************************)
(* A chain from an untrusted source: what reaches the verifiers may have   *)
(* any shape.                                                              *)
(***************************************************************************)
\* what may stand where a proof, the proofs array or a key is expected
MalformedProofs == {Null, Str(<<"tampered">>)}
MalformedLists == {Undef, Null, Obj(<<>>), Str(<<"tampered">>)}
MalformedKeys == {Str(<<"not-a-key">>), Num(<<"1">>)}
UntrustedKeys == {publicKeyOf("A")} \cup MalformedKeys

\* subject.proofs[k] = value
ReplaceProof(k, value) ==
  /\ subject # NoSubject
  /\ tampered = NotTampered
  /\ k + 1 \in 1..Len(SubjectProofs)
  /\ subject' = WithProof(k, value)
  /\ tampered' = [kind |-> "shape", index |-> k, field |-> "proof"]
  /\ last' = NoCall
  /\ UNCHANGED <<clock, file, chain, returned, snapshot, addError, canon,
                 identity, agent, retry, contract, envelopes>>

\* subject.proofs = value
ReplaceProofs(value) ==
  /\ subject # NoSubject
  /\ tampered = NotTampered
  /\ subject' = Put(subject, "proofs", value)
  /\ tampered' = [kind |-> "shape", index |-> -1, field |-> "proofs"]
  /\ last' = NoCall
  /\ UNCHANGED <<clock, file, chain, returned, snapshot, addError, canon,
                 identity, agent, retry, contract, envelopes>>

\* subject.metadata.publicKey = value
ReplaceKey(value) ==
  /\ subject # NoSubject
  /\ tampered = NotTampered
  /\ subject' = Put(subject, "metadata",
                    Put(Get(subject, "metadata"), "publicKey", value))
  /\ tampered' = [kind |-> "shape", index |-> -1, field |-> "publicKey"]
  /\ last' = NoCall
  /\ UNCHANGED <<clock, file, chain, returned, snapshot, addError, canon,
                 identity, agent, retry, contract, envelopes>>

\* delete subject.proofs[k][field]
DeleteField(k, field) ==
  /\ subject # NoSubject
  /\ tampered = NotTampered
  /\ k + 1 \in 1..Len(SubjectProofs)
  /\ Get(SubjectProofs[k + 1], field) # Undef
  /\ subject' = WithProof(k, Delete(SubjectProofs[k + 1], field))
  /\ tampered' = [kind |-> "delete", index |-> k, field |-> field]
  /\ last' = NoCall
  /\ UNCHANGED <<clock, file, chain, returned, snapshot, addError, canon,
                 identity, agent, retry, contract, envelopes>>

\* subject.proofs.shift(): the chain without its first proof, a partial
\* chain
DropFirst ==
  /\ subject # NoSubject
  /\ tampered = NotTampered
  /\ Len(SubjectProofs) >= 2
  /\ subject' = Put(subject, "proofs", ArrayOf(Tail(SubjectProofs)))
  /\ tampered' = [kind |-> "partial", index |-> -1, field |-> "proofs"]
  /\ last' = NoCall
  /\ UNCHANGED <<clock, file, chain, returned, snapshot, addError, canon,
                 identity, agent, retry, contract, envelopes>>

NextUntrusted ==
  \/ Construct("w1", "A", FALSE)
  \/ subject = NoSubject /\ \E in \in AddInputs : Add("w1", in[1], in[2])
  \/ subject = NoSubject /\ Export("w1")
  \/ \E k \in 0..(MaxChain - 1), v \in MalformedProofs : ReplaceProof(k, v)
  \/ \E v \in MalformedLists : ReplaceProofs(v)
  \/ \E v \in MalformedKeys : ReplaceKey(v)
  \/ \E k \in 0..(MaxChain - 1), f \in {"hash", "signature"} :
       TamperField(k, f, Num(<<"1">>))
  \/ \E k \in 0..(MaxChain - 1), f \in ProofFields : DeleteField(k, f)
  \/ DropFirst
  \/ \E k \in 0..(MaxChain - 1), key \in UntrustedKeys : VerifyProof(k, key)
  \/ \E key \in UntrustedKeys : VerifyChain(key)
  \/ VerifyExportedChain

SpecUntrusted == Init /\ [][NextUntrusted]_vars

(***************************************************************************)
(* An exported chain used in the exporting process and imported by a       *)
(* reader.                                                                 *)
(***************************************************************************)
\* snapshot = chain.export(): an object naming the metadata object and the
\* proofs array of the instance
ExportSnapshot(w) ==
  /\ chain[w].state = "open"
  /\ ~snapshot.held
  /\ snapshot' = [held |-> TRUE, w |-> w, shared |-> TRUE,
                  value |-> ChainData(chain[w])]
  /\ UNCHANGED <<clock, file, chain, returned, subject, tampered, last,
                 addError, canon,
                 identity, agent, retry, contract, envelopes>>

\* ProofChain.fromExport(subject): an instance without a private key
FromExport(w) ==
  /\ chain[w].state = "none"
  /\ subject # NoSubject
  /\ LET publicKey == Get(Get(subject, "metadata"), "publicKey")
     IN chain' = [chain EXCEPT ![w] =
                    [state |-> "open", storePath |-> FALSE,
                     keypair |-> [publicKey |-> publicKey, privateKey |-> Null],
                     agentId |-> deriveAgentId(publicKey),
                     proofs |-> SubjectProofs,
                     metadata |-> Get(subject, "metadata")]]
  /\ UNCHANGED <<clock, file, returned, subject, tampered, last, snapshot,
                 addError, canon,
                 identity, agent, retry, contract, envelopes>>

NextShare ==
  \/ Construct("w1", "A", FALSE)
  \/ subject = NoSubject
       /\ \E a \in ActionInputs, d \in {DataFoo, DataNested} : Add("w1", a, d)
  \/ ExportSnapshot("w1")
  \/ subject = NoSubject /\ Export("w1")
  \/ FromExport("w2")
  \/ \E a \in ActionInputs : Add("w2", a, DataFoo)

SpecShare == Init /\ [][NextShare]_vars

(***************************************************************************)
(* The canonicalizer on its own: two proof records that differ in their    *)
(* payload only.                                                           *)
(***************************************************************************)
InsertionOrders(n) ==
  {p \in [1..n -> 1..n] : \A i, j \in 1..n : i # j => p[i] # p[j]}

\* the ways a value can be built: the members of every object in it in
\* every insertion order, the elements of every array in their one order
RECURSIVE Orderings(_)
Orderings(v) ==
  IF ~IsObject(v) THEN {v}
  ELSE LET n == Len(v.kv)
           all == UNION {Orderings(v.kv[i].v) : i \in 1..n}
           choices == {f \in [1..n -> all] : \A i \in 1..n : f[i] \in Orderings(v.kv[i].v)}
       IN IF v.t = "arr"
          THEN {Arr([i \in 1..n |-> KV("", f[i])]) : f \in choices}
          ELSE {Obj([i \in 1..n |-> KV(v.kv[p[i]].k, f[p[i]])]) :
                  p \in InsertionOrders(n), f \in choices}

\* { a: { b: { c: 1 } } } and { a: { c: 1, b: {} } }
PayloadA == Obj(<<KV("a", Obj(<<KV("b", Obj(<<KV("c", Num(<<"1">>))>>))>>))>>)
PayloadB == Obj(<<KV("a", Obj(<<KV("c", Num(<<"1">>)), KV("b", Obj(<<>>))>>))>>)

\* { b: 1, a: { c: [{ b: 1, a: 2 }, 'x'], b: 2 }, c: 'x' }, and the same
\* with the two elements of the array exchanged
ElementObject == Obj(<<KV("b", Num(<<"1">>)), KV("a", Num(<<"2">>))>>)
PayloadList(first, second) ==
  Obj(<<KV("b", Num(<<"1">>)),
        KV("a", Obj(<<KV("c", Arr(<<KV("", first), KV("", second)>>)),
                      KV("b", Num(<<"2">>))>>)),
        KV("c", Str(<<"x">>))>>)

PayloadInputs ==
  Orderings(PayloadA) \cup Orderings(PayloadB)
  \cup Orderings(PayloadList(ElementObject, Str(<<"x">>)))
  \cup Orderings(PayloadList(Str(<<"x">>), ElementObject))

InitCanon ==
  /\ clock = 0
  /\ file = NoFile
  /\ chain = [w \in Writers |-> NoChain]
  /\ returned = <<>>
  /\ subject = NoSubject
  /\ tampered = NotTampered
  /\ last = NoCall
  /\ snapshot = NoSnapshot
  /\ addError = NoError
  /\ canon \in {[NoCanon EXCEPT !.a = a, !.b = b] : a, b \in PayloadInputs}
  /\ identity = NoIdentity
  /\ agent = NoAgent
  /\ retry = NoRetry
  /\ contract = NoContract
  /\ envelopes = NoEnvelopes

\* the record of a proof with the given payload, then sortKeys,
\* JSON.stringify and the hash of it, as hashProofData does them
Canonicalize ==
  /\ ~canon.done
  /\ LET agentId == deriveAgentId(publicKeyOf("A"))
         proofA == createProofData(Str(<<"decision">>), canon.a, agentId, Null,
                                   Obj(<<>>), clock)
         proofB == createProofData(Str(<<"decision">>), canon.b, agentId, Null,
                                   Obj(<<>>), clock)
     IN canon' = [canon EXCEPT !.done = TRUE,
                               !.sortedA = sortKeys(proofA),
                               !.sortedB = sortKeys(proofB),
                               !.bytesA = Stringify(sortKeys(proofA)),
                               !.bytesB = Stringify(sortKeys(proofB)),
                               !.hashA = hashProofData(proofA),
                               !.hashB = hashProofData(proofB)]
  /\ UNCHANGED <<clock, file, chain, returned, subject, tampered, last, snapshot,
                 addError, identity, agent, retry, contract, envelopes>>

NextCanon == Canonicalize

SpecCanon == InitCanon /\ [][NextCanon]_vars

(***************************************************************************)
(* Identity files: keys.js saveKeypair and loadKeypair, the CLI's init and *)
(* add commands, and AgentBootstrap's initProof.  keypair.json is the      *)
(* CLI's key file; private.key stands for the workspace's .proofs          *)
(* directory (identity.json, private.key and chain.json).                  *)
(***************************************************************************)
\* crypto.generateKeyPairSync never returns the keypair a file already holds
Fresh(id, filepath) == identity.files[filepath].keypair # generateKeypair(id)

\* keys.js saveKeypair: fs.writeFileSync(filepath, JSON.stringify(keypair))
saveKeypair(files, keypair, filepath) ==
  [files EXCEPT ![filepath] = [@ EXCEPT !.exists = TRUE, !.keypair = keypair]]

\* keys.js loadKeypair
loadKeypair(files, filepath) == files[filepath].keypair
LoadedIdentity(filepath) ==
  CHOOSE id \in Identities : generateKeypair(id) = loadKeypair(identity.files, filepath)

Attempt(op, filepath, rejected) ==
  [op |-> op, path |-> filepath, existed |-> identity.files[filepath].exists,
   before |-> identity.files[filepath], rejected |-> rejected]

\* agentproof init: refuses when the key file exists, else generates and saves
cmdInit(id) ==
  /\ Fresh(id, "keypair.json")
  /\ IF identity.files["keypair.json"].exists
     THEN identity' = [identity EXCEPT
                         !.attempt = Attempt("cmdInit", "keypair.json", TRUE)]
     ELSE identity' =
            [files |-> saveKeypair(identity.files, generateKeypair(id), "keypair.json"),
             attempt |-> Attempt("cmdInit", "keypair.json", FALSE)]
  /\ UNCHANGED <<chainVars, agent, retry, contract, envelopes>>

\* saveKeypair(generateKeypair(), path), called through the library
SaveKeypair(id) ==
  /\ Fresh(id, "keypair.json")
  /\ identity' =
       [files |-> saveKeypair(identity.files, generateKeypair(id), "keypair.json"),
        attempt |-> Attempt("saveKeypair", "keypair.json", FALSE)]
  /\ UNCHANGED <<chainVars, agent, retry, contract, envelopes>>

\* bootstrap.js initProof(proofsDir, name): identity.json and private.key,
\* then the first proof, then chain.json
initProof(id) ==
  /\ Fresh(id, "private.key")
  /\ LET keypair == generateKeypair(id)
         agentId == deriveAgentId(keypair.publicKey)
         proof == createProof(Str(<<"agent_initialized">>),
                              Obj(<<KV("name", Str(<<"agent">>)),
                                    KV("initialized_at", toISOString(clock)),
                                    KV("tool", Str(<<"AgentBootstrap">>))>>),
                              agentId, Null, Obj(<<>>), clock, keypair.privateKey)
     IN identity' =
          [files |-> [identity.files EXCEPT
                        !["private.key"] = [exists |-> TRUE, keypair |-> keypair,
                                            chain |-> <<proof>>]],
           attempt |-> Attempt("initProof", "private.key", FALSE)]
  /\ UNCHANGED <<chainVars, agent, retry, contract, envelopes>>

\* the user deletes the key file, as cmdInit's message tells them to
DeleteKey ==
  /\ identity.files["keypair.json"].exists
  /\ identity' = [files |-> [identity.files EXCEPT !["keypair.json"] = NoKeyFile],
                  attempt |-> NoAttempt]
  /\ UNCHANGED <<chainVars, agent, retry, contract, envelopes>>

\* agentproof add: loadKeypair(options.key), new ProofChain(keypair,
\* options.chain), chain.add, and the process ends
cmdAddOpen(w) ==
  /\ identity.files["keypair.json"].exists
  /\ Construct(w, LoadedIdentity("keypair.json"), TRUE)

NextIdentity ==
  \/ \E id \in Identities : cmdInit(id)
  \/ \E id \in Identities : SaveKeypair(id)
  \/ \E id \in Identities : initProof(id)
  \/ DeleteKey
  \/ cmdAddOpen("w1")
  \/ Len(returned) < MaxAdds /\ Add("w1", Str(<<"decision">>), DataFoo)
  \/ Exit("w1")

SpecIdentity == Init /\ [][NextIdentity]_vars

(***************************************************************************)
(* Timestamps: the system clock is read by createProofData and by          *)
(* verifyProof, and nothing keeps it from being set back between two       *)
(* calls.  Times are in seconds.                                           *)
(***************************************************************************)
Times == {0, 1, 3, 100}

\* the system clock is set
SetClock(t) ==
  /\ t # clock
  /\ clock' = t
  /\ UNCHANGED <<file, chain, returned, subject, tampered, last, snapshot,
                 addError, canon, identity, agent, retry, contract, envelopes>>

NextClock ==
  \/ \E t \in Times : SetClock(t)
  \/ Construct("w1", "A", FALSE)
  \/ Len(returned) < MaxAdds /\ Add("w1", Str(<<"decision">>), DataFoo)
  \/ Export("w1")
  \/ VerifyChain(publicKeyOf("A"))

SpecClock == Init /\ [][NextClock]_vars

(***************************************************************************)
(* agentprotocol: message.js canonicalize and toCanonicalJson, agent.js    *)
(* signMessage and verifySignature.                                        *)
(***************************************************************************)
\* the keys of the top level sorted, nested objects left as they are
canonicalizeTopLevelOnly(obj) ==
  IF ~IsObject(obj) \/ obj.t = "arr" THEN obj ELSE Obj(SortMembers(obj.kv))

RECURSIVE canonicalize(_)
canonicalize(obj) ==
  IF ~IsObject(obj) THEN obj
  ELSE IF obj.t = "arr"
  THEN Arr([i \in 1..Len(obj.kv) |-> KV(obj.kv[i].k, canonicalize(obj.kv[i].v))])
  ELSE LET sorted == SortMembers(obj.kv)
       IN Obj([i \in 1..Len(sorted) |-> KV(sorted[i].k, canonicalize(sorted[i].v))])

toCanonicalJson(msg) == Stringify(canonicalize(msg))

\* signMessage: the signature is taken of every member but signature
signMessage(message, privateKeyBase64) ==
  LET msgWithoutSig == Delete(message, "signature")
      sig == Ed25519Sign(toCanonicalJson(msgWithoutSig), privateKeyBase64)
  IN Put(message, "signature", Str(sig))

\* agent.js verifySignature(message, publicKeyBase64): { valid, error }.  A
\* key that is not the base64 of a DER public key, null included, throws
\* inside the try block.
verifyMessageSignature(message, publicKeyBase64) ==
  LET signature == Get(message, "signature")
      canonical == toCanonicalJson(Delete(message, "signature"))
  IN IF Falsy(signature)
     THEN [valid |-> FALSE, error |-> "Message has no signature"]
     ELSE IF (~IsPublicKey(publicKeyBase64)) \/ signature.t # "str"
     THEN [valid |-> FALSE, error |-> "Verification error"]
     ELSE IF Ed25519Verify(canonical, publicKeyBase64, signature.s)
     THEN [valid |-> TRUE, error |-> "null"]
     ELSE [valid |-> FALSE, error |-> "Signature verification failed"]

(***************************************************************************)
(* One record under both signing contracts: the seven proof-data fields,   *)
(* and the proof createProof makes of them, are signed by createProof and  *)
(* by signMessage, and each signature is given to the other's verifier.    *)
(***************************************************************************)
ContractInputs ==
  {[action |-> a, data |-> d, id |-> id] :
     a \in ActionInputs, d \in PayloadInputs \cup {DataFoo, DataNested},
     id \in Identities}

InitContract ==
  /\ clock = 0
  /\ file = NoFile
  /\ chain = [w \in Writers |-> NoChain]
  /\ returned = <<>>
  /\ subject = NoSubject
  /\ tampered = NotTampered
  /\ last = NoCall
  /\ snapshot = NoSnapshot
  /\ addError = NoError
  /\ canon = NoCanon
  /\ identity = NoIdentity
  /\ agent = NoAgent
  /\ retry = NoRetry
  /\ contract \in {[step |-> "input", params |-> p] : p \in ContractInputs}
  /\ envelopes = NoEnvelopes

\* createProof and signMessage applied to the record
SignRecord ==
  /\ contract.step = "input"
  /\ LET p == contract.params
         privateKey == privateKeyOf(p.id)
         proofData == createProofData(p.action, p.data, deriveAgentId(publicKeyOf(p.id)),
                                      Null, Obj(<<>>), clock)
         proof == createProof(p.action, p.data, deriveAgentId(publicKeyOf(p.id)),
                              Null, Obj(<<>>), clock, privateKey)
     IN contract' =
          [step |-> "signed", params |-> p,
           proofData |-> proofData,
           proof |-> proof,
           signedData |-> signMessage(proofData, privateKey),
           signedProof |-> signMessage(proof, privateKey),
           bytesProof |-> Stringify(sortKeys(proofData)),
           bytesMessage |-> toCanonicalJson(proofData)]
  /\ UNCHANGED <<chainVars, identity, agent, retry, envelopes>>

\* each signature given to the other contract's verifier
VerifyRecord ==
  /\ contract.step = "signed"
  /\ LET publicKey == publicKeyOf(contract.params.id)
         proofSignature == Get(contract.proof, "signature")
     IN contract' =
          [step |-> "verified", params |-> contract.params,
           proofData |-> contract.proofData,
           proof |-> contract.proof,
           signedData |-> contract.signedData,
           signedProof |-> contract.signedProof,
           bytesProof |-> contract.bytesProof,
           bytesMessage |-> contract.bytesMessage,
           proofByMessage |-> verifyMessageSignature(contract.proof, publicKey).valid,
           messageByProof |-> verifySignature(contract.signedProof, publicKey),
           dataByMessage |->
             verifyMessageSignature(Put(contract.proofData, "signature", proofSignature),
                                    publicKey).valid,
           dataByProof |-> verifySignature(contract.signedData, publicKey)]
  /\ UNCHANGED <<chainVars, identity, agent, retry, envelopes>>

NextContract == SignRecord \/ VerifyRecord

SpecContract == InitContract /\ [][NextContract]_vars

(***************************************************************************)
(* A third party reorders the proofs of an exported chain, removes one or  *)
(* inserts one, and verifies the chain.                                    *)
(***************************************************************************)
\* the sequence without its element at position k
RemoveAt(seq, k) ==
  [i \in 1..(Len(seq) - 1) |-> IF i < k THEN seq[i] ELSE seq[i + 1]]
\* the sequence with value put in at position k
InsertAt(seq, k, value) ==
  [i \in 1..(Len(seq) + 1) |->
     IF i < k THEN seq[i] ELSE IF i = k THEN value ELSE seq[i - 1]]

\* [proofs[i], proofs[j]] = [proofs[j], proofs[i]]
SwapProofs(i, j) ==
  /\ subject # NoSubject
  /\ tampered = NotTampered
  /\ i < j
  /\ j + 1 \in 1..Len(SubjectProofs)
  /\ subject' = Put(subject, "proofs",
                    ArrayOf([n \in 1..Len(SubjectProofs) |->
                               IF n = i + 1 THEN SubjectProofs[j + 1]
                               ELSE IF n = j + 1 THEN SubjectProofs[i + 1]
                               ELSE SubjectProofs[n]]))
  /\ tampered' = [kind |-> "swap", index |-> i, field |-> "proofs"]
  /\ last' = NoCall
  /\ UNCHANGED <<clock, file, chain, returned, snapshot, addError, canon,
                 identity, agent, retry, contract, envelopes>>

\* proofs.splice(k, 1)
RemoveProof(k) ==
  /\ subject # NoSubject
  /\ tampered = NotTampered
  /\ k + 1 \in 1..Len(SubjectProofs)
  /\ subject' = Put(subject, "proofs", ArrayOf(RemoveAt(SubjectProofs, k + 1)))
  /\ tampered' = [kind |-> "remove", index |-> k, field |-> "proofs"]
  /\ last' = NoCall
  /\ UNCHANGED <<clock, file, chain, returned, snapshot, addError, canon,
                 identity, agent, retry, contract, envelopes>>

\* proofs.splice(k, 0, proofs[j]): one more copy of a proof of the chain
InsertProof(k, j) ==
  /\ subject # NoSubject
  /\ tampered = NotTampered
  /\ j + 1 \in 1..Len(SubjectProofs)
  /\ k + 1 \in 1..(Len(SubjectProofs) + 1)
  /\ subject' = Put(subject, "proofs",
                    ArrayOf(InsertAt(SubjectProofs, k + 1, SubjectProofs[j + 1])))
  /\ tampered' = [kind |-> "insert", index |-> k, field |-> "proofs"]
  /\ last' = NoCall
  /\ UNCHANGED <<clock, file, chain, returned, snapshot, addError, canon,
                 identity, agent, retry, contract, envelopes>>

NextReorder ==
  \/ Construct("w1", "A", FALSE)
  \/ \E a \in ActionInputs : Add("w1", a, DataFoo)
  \/ Export("w1")
  \/ \E i, j \in 0..(MaxChain - 1) : SwapProofs(i, j)
  \/ \E k \in 0..(MaxChain - 1) : RemoveProof(k)
  \/ \E k \in 0..MaxChain, j \in 0..(MaxChain - 1) : InsertProof(k, j)
  \/ VerifyChain(publicKeyOf("A"))

SpecReorder == Init /\ [][NextReorder]_vars

(***************************************************************************)
(* One writer whose save() can fail: fs.writeFileSync throws when the      *)
(* store path cannot be opened for writing.                                *)
(***************************************************************************)
EACCES == [name |-> "Error", code |-> "EACCES"]

\* ProofChain.add when the writeFileSync of its save() throws: the proof
\* has been pushed, the file is as it was, add throws what save threw
AddSaveFails(w, action, data) ==
  /\ chain[w].state = "open"
  /\ chain[w].storePath
  /\ ~signProofDataThrows(chain[w].keypair.privateKey)
  /\ Len(chain[w].proofs) < MaxChain
  /\ LET c == chain[w]
         proof == createProof(action, data, c.agentId, getLastHash(c), Obj(<<>>),
                              clock, c.keypair.privateKey)
         pushed == [c EXCEPT !.proofs = Append(c.proofs, proof)]
     IN /\ chain' = [chain EXCEPT ![w] = pushed]
        /\ snapshot' = IF snapshot.w = w /\ snapshot.shared
                       THEN [snapshot EXCEPT
                               !.value = Put(snapshot.value, "proofs",
                                             ArrayOf(pushed.proofs))]
                       ELSE snapshot
  /\ addError' = [w |-> w, name |-> EACCES.name, code |-> EACCES.code]
  /\ UNCHANGED <<clock, file, returned, subject, tampered, last, canon,
                 identity, agent, retry, contract, envelopes>>

NextPersist ==
  \/ Construct("w1", "A", TRUE)
  \/ Len(returned) < MaxAdds /\ \E a \in ActionInputs : Add("w1", a, DataFoo)
  \/ \E a \in ActionInputs : AddSaveFails("w1", a, DataFoo)
  \/ Exit("w1")

SpecPersist == Init /\ [][NextPersist]_vars

(***************************************************************************)
(* A third party changes the agentId the metadata of an exported chain     *)
(* states, and verifies the export.                                        *)
(***************************************************************************)
AgentIdInputs == {deriveAgentId(publicKeyOf("B")), Str(<<"agent-", "other">>), Null}

\* subject.metadata.agentId = value
ReplaceAgentId(value) ==
  /\ subject # NoSubject
  /\ tampered = NotTampered
  /\ Get(Get(subject, "metadata"), "agentId") # value
  /\ subject' = Put(subject, "metadata",
                    Put(Get(subject, "metadata"), "agentId", value))
  /\ tampered' = [kind |-> "metadata", index |-> -1, field |-> "agentId"]
  /\ last' = NoCall
  /\ UNCHANGED <<clock, file, chain, returned, snapshot, addError, canon,
                 identity, agent, retry, contract, envelopes>>

NextMetadata ==
  \/ Construct("w1", "A", FALSE)
  \/ Len(returned) < MaxAdds /\ \E a \in ActionInputs : Add("w1", a, DataFoo)
  \/ Export("w1")
  \/ \E value \in AgentIdInputs : ReplaceAgentId(value)
  \/ VerifyExportedChain

SpecMetadata == Init /\ [][NextMetadata]_vars

(***************************************************************************)
(* agentprotocol: Agent.processMessage.  The agent receives messages from  *)
(* the senders A and B; a message is signed with its sender's key, with    *)
(* the other sender's key, or not at all.                                  *)
(***************************************************************************)
MessageTypes == {"hello", "request", "notify"}
Signers == Identities \cup {"none"}

\* message.js createMessage
createMessage(from, to, type, payload, now) ==
  Obj(<<KV("protocol", Str(<<"agentprotocol/0.1">>)),
        KV("id", Str(<<"uuid">>)),
        KV("timestamp", toISOString(now)),
        KV("from", Obj(<<KV("agentId", Get(from, "agentId")),
                         KV("name", Get(from, "name")),
                         KV("capabilities", OrElse(Get(from, "capabilities"), Arr(<<>>)))>>)),
        KV("to", Obj(<<KV("agentId", OrElse(Get(to, "agentId"), Null)),
                       KV("broadcast", Str(<<"false">>))>>)),
        KV("type", Str(<<type>>)),
        KV("payload", payload)>>)

\* the payloads createHello, createRequest and createNotify build
PayloadOf(type) ==
  CASE type = "hello" ->
         Obj(<<KV("version", Str(<<"0.1">>)), KV("features", Arr(<<>>))>>)
    [] type = "request" ->
         Obj(<<KV("action", Str(<<"echo">>)), KV("correlationId", Str(<<"uuid">>)),
               KV("params", Obj(<<>>)), KV("timeout", Num(<<"30000">>))>>)
    [] type = "notify" ->
         Obj(<<KV("event", Str(<<"ping">>)), KV("data", Obj(<<>>))>>)

\* the message a sender makes of a type, signed by signer
IncomingMessage(id, type, signer) ==
  LET from == Obj(<<KV("agentId", getAgentId(publicKeyOf(id))),
                    KV("name", Str(<<"agent", id>>)),
                    KV("capabilities", Arr(<<>>))>>)
      to == Obj(<<KV("agentId", Str(<<"receiver">>))>>)
      msg == createMessage(from, to, type, PayloadOf(type), 0)
  IN IF signer = "none" THEN msg ELSE signMessage(msg, privateKeyOf(signer))

\* every message that can arrive, and what verifySignature makes of it
\* under every key the map can hold
IncomingMessages ==
  [id \in Identities, type \in MessageTypes, signer \in Signers |->
     IncomingMessage(id, type, signer)]
KnownKeys == {publicKeyOf(id) : id \in Identities} \cup {Null, Undef}
Verifications ==
  [id \in Identities, type \in MessageTypes, signer \in Signers, key \in KnownKeys |->
     verifyMessageSignature(IncomingMessages[id, type, signer], key)]

\* this.knownAgents.set(agentId, { publicKey, name, capabilities })
addKnownAgent(knownAgents, agentId, publicKey, name) ==
  [knownAgents EXCEPT ![agentId] =
     [known |-> TRUE, publicKey |-> publicKey, name |-> name]]

\* agent.addKnownAgent(agentId, publicKey): the application registers the
\* key of a sender
AddKnownAgent(id) ==
  /\ agent' = [agent EXCEPT
                 !.knownAgents = addKnownAgent(@, getAgentId(publicKeyOf(id)),
                                               publicKeyOf(id), Null)]
  /\ UNCHANGED <<chainVars, identity, retry, contract, envelopes>>

\* agent.registerCapability(capability, handler)
RegisterCapability(capability) ==
  /\ capability \notin agent.handlers
  /\ agent' = [agent EXCEPT !.handlers = @ \cup {capability}]
  /\ UNCHANGED <<chainVars, identity, retry, contract, envelopes>>

\* the response of _handleRequest: the handler's result, or the error that
\* no handler is registered for the action
handleRequest(msg) ==
  IF Get(Get(msg, "payload"), "action").s[1] \in agent.handlers
  THEN "response" ELSE "error:CAPABILITY_NOT_SUPPORTED"

\* agent.processMessage(rawMessage) on a message object
ProcessMessage(id, type, signer) ==
  /\ LET msg == IncomingMessages[id, type, signer]
         agentId == Get(Get(msg, "from"), "agentId")
         senderInfo == agent.knownAgents[agentId]
         verification == Verifications[id, type, signer, senderInfo.publicKey]
         rejected == senderInfo.known /\ ~verification.valid
         knownAgents ==
           IF (~rejected) /\ type = "hello"
           THEN addKnownAgent(agent.knownAgents, agentId, Null,
                              Get(Get(msg, "from"), "name"))
           ELSE agent.knownAgents
         handled ==
           [from |-> id, type |-> type, signer |-> signer,
            greeted |-> id \in agent.greeted,
            before |-> senderInfo, after |-> knownAgents[agentId],
            error |-> IF rejected THEN verification.error ELSE "null",
            dispatched |-> IF rejected THEN "none" ELSE type,
            response |-> IF rejected THEN "error:INVALID_SIGNATURE"
                         ELSE CASE type = "hello" -> "hello"
                                [] type = "request" -> handleRequest(msg)
                                [] type = "notify" -> "null"]
     IN agent' = [agent EXCEPT
                    !.knownAgents = knownAgents,
                    !.greeted = IF (~rejected) /\ type = "hello"
                                THEN @ \cup {id} ELSE @,
                    !.handled = handled]
  /\ UNCHANGED <<chainVars, identity, retry, contract, envelopes>>

NextAgent ==
  \/ \E id \in Identities : AddKnownAgent(id)
  \/ RegisterCapability("echo")
  \/ \E id \in Identities, type \in MessageTypes, signer \in Signers :
       ProcessMessage(id, type, signer)

SpecAgent == Init /\ [][NextAgent]_vars

(***************************************************************************)
(* agentproof-bridge: AgentProofAdapter.toEnvelope, hashEnvelope, attest.  *)
(***************************************************************************)
\* Buffer.from(text, 'hex').toString('base64'): the bytes in the other
\* encoding
HexToBase64(v) == Str(<<"base64">> \o v.s)

\* the chain object of the bridge: { agentId, publicKey }
BridgeChain(id) ==
  Obj(<<KV("agentId", deriveAgentId(publicKeyOf(id))),
        KV("publicKey", publicKeyOf(id))>>)

toEnvelope(proof, bridgeChain) ==
  LET publicKey == Get(bridgeChain, "publicKey")
      did == Str(<<"did:aip:">> \o Sha256Hex(publicKey.s))
  IN Obj(<<KV("version", Num(<<"1">>)),
           KV("format", Str(<<"universal-proof-envelope-v1">>)),
           KV("source", Obj(<<KV("type", Str(<<"agentproof">>)),
                              KV("agent_id", Get(bridgeChain, "agentId")),
                              KV("agent_did", did),
                              KV("public_key", HexToBase64(publicKey)),
                              KV("key_type", Str(<<"ed25519">>))>>)),
           KV("proof", Obj(<<KV("action", Get(proof, "action")),
                             KV("data", Get(proof, "data")),
                             KV("timestamp", Get(proof, "timestamp")),
                             KV("hash", Get(proof, "hash")),
                             KV("signature", HexToBase64(Get(proof, "signature"))),
                             KV("prev_hash",
                                IF Falsy(Get(proof, "previousHash")) THEN Null
                                ELSE Get(proof, "previousHash"))>>))>>)

\* hashEnvelope: JSON.stringify({ source, proof }, Object.keys(envelope).sort()).
\* The array is the list of the property names that are written, at every
\* depth, in the order of the array.
hashEnvelope(envelope) ==
  LET allow == {envelope.kv[i].k : i \in 1..Len(envelope.kv)}
      canonical == Stringify(KeepListed(Obj(<<KV("source", Get(envelope, "source")),
                                              KV("proof", Get(envelope, "proof"))>>),
                                        allow))
  IN Sha256Hex(canonical)

\* attest: the envelope hash is signed and the attestation pushed
attest(envelope, privateKey, attesterId) ==
  LET envelopeHash == hashEnvelope(envelope)
      attestation == Obj(<<KV("attester_id", attesterId),
                           KV("attester_source", Str(<<"agentproof">>)),
                           KV("envelope_hash", Str(envelopeHash)),
                           KV("timestamp", toISOString(0)),
                           KV("signature", Str(Ed25519Sign(envelopeHash, privateKey)))>>)
      attestations == IF Falsy(Get(envelope, "attestations")) THEN <<>>
                      ELSE Elements(Get(envelope, "attestations"))
  IN Put(envelope, "attestations", ArrayOf(Append(attestations, attestation)))

\* the proofs the envelopes are made of
EnvelopeInputs ==
  {[id |-> id,
    proof |-> createProof(a, d, deriveAgentId(publicKeyOf(id)), Null, Obj(<<>>),
                          0, privateKeyOf(id))] :
     id \in Identities, a \in ActionInputs, d \in {DataFoo, DataNested}}

InitEnvelope ==
  /\ clock = 0
  /\ file = NoFile
  /\ chain = [w \in Writers |-> NoChain]
  /\ returned = <<>>
  /\ subject = NoSubject
  /\ tampered = NotTampered
  /\ last = NoCall
  /\ snapshot = NoSnapshot
  /\ addError = NoError
  /\ canon = NoCanon
  /\ identity = NoIdentity
  /\ agent = NoAgent
  /\ retry = NoRetry
  /\ contract = NoContract
  /\ envelopes \in {[step |-> "input", a |-> a, b |-> b] : a, b \in EnvelopeInputs}

\* toEnvelope and hashEnvelope applied to both proofs
HashEnvelopes ==
  /\ envelopes.step = "input"
  /\ LET envA == toEnvelope(envelopes.a.proof, BridgeChain(envelopes.a.id))
         envB == toEnvelope(envelopes.b.proof, BridgeChain(envelopes.b.id))
     IN envelopes' = [step |-> "hashed", a |-> envelopes.a, b |-> envelopes.b,
                      envA |-> envA, envB |-> envB,
                      hashA |-> hashEnvelope(envA), hashB |-> hashEnvelope(envB),
                      again |-> hashEnvelope(envA)]
  /\ UNCHANGED <<chainVars, identity, agent, retry, contract>>

\* the first envelope is attested by the owner of the second, and hashed
\* once more
Attest ==
  /\ envelopes.step = "hashed"
  /\ LET attested == attest(envelopes.envA, privateKeyOf(envelopes.b.id),
                            deriveAgentId(publicKeyOf(envelopes.b.id)))
     IN envelopes' = [envelopes EXCEPT !.step = "attested", !.envA = attested,
                                       !.again = hashEnvelope(attested)]
  /\ UNCHANGED <<chainVars, identity, agent, retry, contract>>

NextEnvelope == HashEnvelopes \/ Attest

SpecEnvelope == InitEnvelope /\ [][NextEnvelope]_vars

(***************************************************************************)
(* retryclient/index.js: RetryClient.  One URL; a fetch is followed        *)
(* request by request.                                                     *)
(***************************************************************************)
DefaultMaxRetries == 3
RetryInputs == {0, 1, 2}
Methods == {"GET", "POST"}
\* what makeRequest settles with: a status code, or the code of the error
\* it rejects with
RequestOutcomes == {"200", "404", "503", "429", "ECONNRESET", "ERR_OTHER"}
StatusCodes == {"200", "404", "503", "429"}

\* options.maxRetries || 3
MaxRetriesOf(n) == IF n = 0 THEN DefaultMaxRetries ELSE n

\* isRetryable(statusCode, error)
isRetryable(outcome) ==
  IF outcome \in StatusCodes
  THEN outcome \in {"503", "429"}
  ELSE outcome \in {"ECONNRESET"}

\* new RetryClient({ maxRetries: n })
NewClient(n) ==
  /\ retry.state = "none"
  /\ retry' = [retry EXCEPT !.state = "idle", !.n = n, !.maxRetries = MaxRetriesOf(n)]
  /\ UNCHANGED <<chainVars, identity, agent, contract, envelopes>>

\* fetch(url, { method }) up to its first request: a GET that finds a fresh
\* cache entry returns it
Fetch(method) ==
  /\ retry.state = "idle"
  /\ retry' = IF method = "GET" /\ retry.cache = "fresh"
              THEN [retry EXCEPT !.state = "returned", !.method = method,
                                 !.attempt = 0, !.attempts = 0,
                                 !.lastOutcome = "none", !.fromCache = TRUE]
              ELSE [retry EXCEPT !.state = "fetching", !.method = method,
                                 !.attempt = 0, !.attempts = 0,
                                 !.lastOutcome = "none", !.fromCache = FALSE]
  /\ UNCHANGED <<chainVars, identity, agent, contract, envelopes>>

\* what follows the loop: the stale cache entry of a GET, or the throw
AfterLoop(r) ==
  IF r.method = "GET" /\ r.cache # "none"
  THEN [r EXCEPT !.state = "stale", !.fromCache = TRUE]
  ELSE [r EXCEPT !.state = "thrown"]

\* one pass of the loop of fetch: makeRequest settles with outcome
MakeRequest(outcome) ==
  /\ retry.state = "fetching"
  /\ LET r == [retry EXCEPT !.attempts = @ + 1, !.lastOutcome = outcome]
     IN retry' =
          IF outcome = "200"
          THEN [r EXCEPT !.state = "returned",
                         !.cache = IF r.method = "GET" THEN "fresh" ELSE @]
          ELSE IF outcome \in StatusCodes
          THEN (IF ~isRetryable(outcome)
                THEN [r EXCEPT !.state = "returned"]
                ELSE IF r.attempt < r.maxRetries
                THEN [r EXCEPT !.attempt = @ + 1]
                ELSE AfterLoop(r))
          ELSE (IF (~isRetryable(outcome)) \/ r.attempt >= r.maxRetries
                THEN AfterLoop(r)
                ELSE [r EXCEPT !.attempt = @ + 1])
  /\ UNCHANGED <<chainVars, identity, agent, contract, envelopes>>

\* the cache entry grows older than cacheTTL
Expire ==
  /\ retry.cache = "fresh"
  /\ retry.state \in {"idle", "returned", "stale", "thrown"}
  /\ retry' = [retry EXCEPT !.cache = "stale"]
  /\ UNCHANGED <<chainVars, identity, agent, contract, envelopes>>

\* the caller has the result of the fetch and the client is free again
Settle ==
  /\ retry.state \in {"returned", "stale", "thrown"}
  /\ retry' = [retry EXCEPT !.state = "idle", !.attempt = 0, !.attempts = 0,
                            !.lastOutcome = "none", !.fromCache = FALSE]
  /\ UNCHANGED <<chainVars, identity, agent, contract, envelopes>>

NextRetry ==
  \/ \E n \in RetryInputs : NewClient(n)
  \/ \E method \in Methods : Fetch(method)
  \/ \E outcome \in RequestOutcomes : MakeRequest(outcome)
  \/ Expire
  \/ Settle

SpecRetry == Init /\ [][NextRetry]_vars

(***************************************************************************)
(* Properties.                                                             *)
(***************************************************************************)
IsPrefix(a, b) == Len(a) <= Len(b) /\ SubSeq(b, 1, Len(a)) = a

LinkedChain(ps) ==
  /\ Len(ps) > 0 => Get(ps[1], "previousHash") = Null
  /\ \A i \in 2..Len(ps) : Get(ps[i], "previousHash") = Get(ps[i - 1], "hash")

\* C1: in the chain a ProofChain instance holds, the first proof has a null
\* previousHash and every later proof has the stored hash of the proof
\* before it as its previousHash.
C1_AddLinksToPrevious ==
  \A w \in Writers : chain[w].state = "open" => LinkedChain(chain[w].proofs)

\* one instance has made two add calls on an empty chain
C1_Witness ==
  \E w \in Writers :
    /\ chain[w].state = "open"
    /\ Len(returned) = 2
    /\ returned[1].w = w /\ returned[2].w = w
    /\ chain[w].proofs = <<returned[1].proof, returned[2].proof>>

PersistedProofs == Elements(Get(JsonParse(file), "proofs"))

\* C2: appends to one chain file are serialized: no two proofs that add
\* calls returned claim the same previousHash, and every proof a completed
\* add returned is in the persisted chain.
C2_AppendsSerialized ==
  /\ \A i, j \in 1..Len(returned) :
       i # j => Get(returned[i].proof, "previousHash") # Get(returned[j].proof, "previousHash")
  /\ (file.exists /\ Parses(file)) =>
       \A i \in 1..Len(returned) :
         \E k \in 1..Len(PersistedProofs) : PersistedProofs[k] = returned[i].proof

\* C3: the chain file is at every moment a complete chain: a crash inside
\* save never leaves a truncated or partially written file.
C3_SaveIsAtomic == file.exists => Parses(file)

\* C4: the chain an instance holds only grows: what it held before a step
\* is a prefix of what it holds after it.
C4_AppendOnly ==
  [][\A w \in Writers :
       (chain[w].state = "open" /\ chain'[w].state = "open")
         => IsPrefix(chain[w].proofs, chain'[w].proofs)]_vars

Errors == last.out.errors
UntamperedOwnerCheck ==
  /\ last.fn \in {"verifyChain", "verifyExportedChain"}
  /\ last.publicKey = OwnerKey
  /\ tampered = NotTampered

\* C5: a chain of three or more proofs built by sequential add calls and
\* exported verifies as valid with no errors, under verifyChain with the
\* owner's key and under verifyExportedChain; the export holds as many
\* proofs as add calls were made and its first previousHash is null.
C5_BuiltChainVerifies ==
  (UntamperedOwnerCheck /\ Len(SubjectProofs) >= 3) =>
    /\ last.out.valid
    /\ Errors = <<>>
    /\ Len(SubjectProofs) = Len(returned)
    /\ Get(SubjectProofs[1], "previousHash") = Null

\* the chain decision, tool_call, decision went through verifyExportedChain
C5_Witness ==
  /\ subject # NoSubject
  /\ UntamperedOwnerCheck
  /\ last.fn = "verifyExportedChain"
  /\ [i \in 1..Len(SubjectProofs) |-> Get(SubjectProofs[i], "action")]
       = <<Str(<<"decision">>), Str(<<"tool_call">>), Str(<<"decision">>)>>

TamperedProofChecked ==
  /\ last.fn = "verifyProof"
  /\ tampered.index = last.index

\* C6: after a proof's top-level field or a field nested inside its data
\* was changed, verifyProof returns valid: false with a hash or a
\* signature error.
C6_TamperDetected ==
  (TamperedProofChecked /\ tampered.kind \in {"field", "deep"}) =>
    /\ ~last.out.valid
    /\ \E i \in 1..Len(Errors) :
         Errors[i] \in {<<"hash_mismatch">>, <<"signature_invalid">>}

\* data.inner.value was changed and the proof checked with the owner's key
C6_Witness ==
  /\ subject # NoSubject
  /\ TamperedProofChecked
  /\ tampered.kind = "deep" /\ tampered.field = "value"
  /\ last.publicKey = OwnerKey

\* C7: any change to the stored proof object, a changed value or an added
\* field, makes verifyProof return valid: false.
C7_AnyChangeDetected ==
  (TamperedProofChecked /\ tampered.kind # "none") => ~last.out.valid

\* C8: with previousHash of proof k replaced, verifying the chain with the
\* owner's key fails, some error names index k and no error names another
\* index.
C8_BreakLocalized ==
  (/\ last.fn \in {"verifyChain", "verifyExportedChain"}
   /\ last.publicKey = OwnerKey
   /\ tampered.kind = "field" /\ tampered.field = "previousHash") =>
    /\ ~last.out.valid
    /\ \E i \in 1..Len(Errors) : Errors[i].index = tampered.index
    /\ \A i \in 1..Len(Errors) : Errors[i].index = tampered.index

\* previousHash of a proof after the first was replaced: the proof's own
\* error and the chain break are both reported
C8_Witness ==
  /\ subject # NoSubject
  /\ last.fn = "verifyChain"
  /\ last.publicKey = OwnerKey
  /\ tampered.kind = "field" /\ tampered.field = "previousHash"
  /\ tampered.index >= 1
  /\ Len(Errors) = 2

TamperedFooOfSecond ==
  /\ last.fn \in {"verifyChain", "verifyExportedChain"}
  /\ last.publicKey = OwnerKey
  /\ Len(SubjectProofs) = 3
  /\ tampered = [kind |-> "deep", index |-> 1, field |-> "foo"]

\* C9: in a chain of three proofs with proofs[1].data.foo changed, chain
\* verification fails with exactly one entry in errors, and it names
\* index 1.
C9_OneErrorAtIndexOne ==
  TamperedFooOfSecond =>
    /\ ~last.out.valid
    /\ Len(Errors) = 1
    /\ Errors[1].index = 1

C9_Witness ==
  /\ subject # NoSubject
  /\ TamperedFooOfSecond
  /\ Errors[1].details = <<<<"hash_mismatch">>, <<"signature_invalid">>>>

\* C10: verifyProof of a proof against the public key of an identity other
\* than the one that signed it returns valid: false.
C10_OtherIdentityRejected ==
  (last.fn = "verifyProof" /\ last.publicKey # chain["w1"].keypair.publicKey)
    => ~last.out.valid

\* an unchanged proof of A was checked against the key of B
C10_Witness ==
  /\ last.fn = "verifyProof"
  /\ tampered = NotTampered
  /\ chain["w1"].keypair = generateKeypair("A")
  /\ last.publicKey = publicKeyOf("B")
  /\ Errors = <<<<"agent_id_mismatch">>, <<"signature_invalid">>>>

ChainVerified == last.fn \in {"verifyChain", "verifyExportedChain"}

\* C11: verifyProof, verifyChain and verifyExportedChain return a result
\* for every input and never throw, whatever is wrong with the proof, the
\* proofs value or the public key.
C11_VerifiersNeverThrow == last.fn # "none" => ~last.threw

\* the fields the format requires of every proof
RequiredBySpec ==
  {"version", "action", "data", "agentId", "previousHash", "timestamp",
   "hash", "signature"}

\* C12: when a proof of a chain lacks a required field, chain verification
\* reports that field as the only error of that proof (the hash and
\* signature checks of that proof are skipped), and every other proof is
\* still verified: it has an error entry exactly when it is invalid.
C12_MissingFieldNamed ==
  (/\ ChainVerified /\ ~last.threw
   /\ tampered.kind = "delete" /\ tampered.field \in RequiredBySpec) =>
    /\ \E i \in 1..Len(Errors) :
         Errors[i] = Entry("proof", tampered.index,
                           <<<<"missing_field", tampered.field>>>>)
    /\ \A j \in 1..Len(SubjectProofs) :
         j - 1 # tampered.index =>
           ((\E i \in 1..Len(Errors) :
               Errors[i].kind = "proof" /\ Errors[i].index = j - 1)
            <=> ~verifyProof(SubjectProofs[j], last.publicKey, clock).valid)

\* C13: the result of chain verification is valid exactly when its error
\* list is empty, whatever its warnings are, and the error list has an
\* entry for every invalid proof, every broken link and mixed agent ids.
C13_ValidIffNoErrors ==
  (ChainVerified /\ ~last.threw /\ ~Falsy(last.publicKey)) =>
    /\ last.out.valid <=> Errors = <<>>
    /\ \A j \in 1..Len(SubjectProofs) :
         ~verifyProof(SubjectProofs[j], last.publicKey, clock).valid =>
           \E i \in 1..Len(Errors) :
             Errors[i].kind = "proof" /\ Errors[i].index = j - 1
    /\ \A j \in 2..Len(SubjectProofs) :
         ~StrictEq(Get(SubjectProofs[j], "previousHash"),
                   Get(SubjectProofs[j - 1], "hash")) =>
           \E i \in 1..Len(Errors) :
             Errors[i].kind = "chain_break" /\ Errors[i].index = j - 1
    /\ Cardinality({Get(SubjectProofs[j], "agentId") : j \in 1..Len(SubjectProofs)}) > 1
         => \E i \in 1..Len(Errors) : Errors[i].kind = "multiple_agents"

\* the hash of the first proof was deleted: the missing field and the
\* broken link of the next proof are both reported
C13_Witness ==
  /\ ChainVerified /\ ~last.threw
  /\ tampered = [kind |-> "delete", index |-> 0, field |-> "hash"]
  /\ ~last.out.valid
  /\ Len(Errors) = 2
  /\ Errors[2] = Entry("chain_break", 1, <<>>)

\* C14: the object an export() call returned keeps the metadata and the
\* proofs it had when it was returned, whatever is added to the chain
\* afterwards.
C14_SnapshotImmutable ==
  [][(snapshot.held /\ snapshot'.held) => snapshot'.value = snapshot.value]_vars

PrivateKeyTexts == {privateKeyOf(id).s : id \in Identities}

\* a value holds private key material: a private key as a string anywhere
\* in it, or a member named privateKey
RECURSIVE HoldsPrivateKey(_)
HoldsPrivateKey(v) ==
  \/ v.t = "str" /\ v.s \in PrivateKeyTexts
  \/ \E i \in 1..Len(v.kv) :
       v.kv[i].k = "privateKey" \/ HoldsPrivateKey(v.kv[i].v)

KeysOf(o) == [i \in 1..Len(o.kv) |-> o.kv[i].k]

OnlyMetadataAndProofs(v) ==
  /\ ~HoldsPrivateKey(v)
  /\ KeysOf(v) = <<"metadata", "proofs">>
  /\ KeysOf(Get(v, "metadata")) = <<"created", "agentId", "publicKey">>

\* C15: what export() returns for a chain and what the chain file holds is
\* { metadata: { created, agentId, publicKey }, proofs } and holds no
\* private key anywhere.
C15_NoPrivateKeyShared ==
  /\ file.exists => OnlyMetadataAndProofs(file.of)
  /\ \A w \in Writers :
       chain[w].state = "open" => OnlyMetadataAndProofs(ChainData(chain[w]))

\* a chain that holds its private key and two proofs, saved
C15_Witness ==
  \E w \in Writers :
    /\ chain[w].state = "open"
    /\ chain[w].keypair.privateKey = privateKeyOf("A")
    /\ Len(chain[w].proofs) = 2
    /\ file.exists /\ Parses(file)
    /\ PersistedProofs = chain[w].proofs

LastHashOf(ps) == IF ps = <<>> THEN Null ELSE Get(ps[Len(ps)], "hash")

\* C16: a step in which an add on a chain with a store path returns leaves
\* a file that holds exactly the proofs of the instance, and a step that
\* constructs a ProofChain on an existing file leaves it with the proofs
\* of the file in the same order, its last hash being the hash of the last
\* persisted proof.
C16_PersistAndResume ==
  [][\A w \in Writers :
       /\ (/\ Len(returned') = Len(returned) + 1
           /\ returned'[Len(returned')].w = w
           /\ chain'[w].storePath)
            => /\ file'.exists /\ Parses(file')
               /\ PersistedProofs' = chain'[w].proofs
       /\ (chain[w].state # "open" /\ chain'[w].state = "open" /\ file.exists)
            => /\ chain'[w].proofs = PersistedProofs
               /\ getLastHash(chain'[w]) = LastHashOf(PersistedProofs)]_vars

\* one process added a proof, another one constructed on the file later
\* added the second, linked to the first
C16_Witness ==
  /\ Len(returned) = 2
  /\ returned[1].w # returned[2].w
  /\ Get(returned[2].proof, "previousHash") = Get(returned[1].proof, "hash")
  /\ file.exists /\ Parses(file)
  /\ PersistedProofs = <<returned[1].proof, returned[2].proof>>
  /\ chain[returned[2].w].proofs = PersistedProofs

\* C17: every proof an add call returned has as its stored hash the hash
\* of its own fields without hash and signature, and verifyProof finds it
\* valid under the public key of the identity that built it.
C17_FreshProofVerifies ==
  \A i \in 1..Len(returned) :
    LET proof == returned[i].proof
        owner == chain[returned[i].w].keypair
    IN /\ Get(proof, "hash") =
            Str(hashProofData(Delete(Delete(proof, "hash"), "signature")))
       /\ owner.privateKey # Null =>
            verifyProof(proof, owner.publicKey, clock)
              = [valid |-> TRUE, errors |-> <<>>, warnings |-> <<>>]

\* three proofs were built, the last one with nested data
C17_Witness ==
  /\ Len(returned) = 3
  /\ Get(returned[3].proof, "data") = DataNested
  /\ chain["w1"].keypair = generateKeypair("A")

\* a and b are the same nested map: the same keys with the same values in
\* every object, whatever the order; the same elements in the same order
\* in every array
RECURSIVE SameMap(_, _)
SameMap(a, b) ==
  IF a.t # b.t \/ Len(a.kv) # Len(b.kv) THEN FALSE
  ELSE IF a.t = "obj"
  THEN /\ {a.kv[i].k : i \in 1..Len(a.kv)} = {b.kv[i].k : i \in 1..Len(b.kv)}
       /\ \A i \in 1..Len(a.kv) : SameMap(a.kv[i].v, Get(b, a.kv[i].k))
  ELSE IF a.t = "arr"
  THEN \A i \in 1..Len(a.kv) : SameMap(a.kv[i].v, b.kv[i].v)
  ELSE a = b

\* the keys of every object inside v are in ascending order
RECURSIVE KeysAscending(_)
KeysAscending(v) ==
  /\ v.t = "obj" =>
       \A i \in 1..(Len(v.kv) - 1) : KeyRank(v.kv[i].k) < KeyRank(v.kv[i + 1].k)
  /\ \A i \in 1..Len(v.kv) : KeysAscending(v.kv[i].v)

C19_SameBytesAsStated ==
  (canon.done /\ canon.a = PayloadA /\ canon.b = PayloadB) =>
    (canon.bytesA = canon.bytesB /\ canon.hashA = canon.hashB)

\* C19 amended: the proofs with payloads { a: { b: { c: 1 } } } and
\* { a: { c: 1, b: {} } }, which are different maps, have different
\* canonical bytes and different hashes; the proofs with payloads
\* { a: { c: 1, b: {} } } and { a: { b: {}, c: 1 } }, which differ in key
\* order only, have the same canonical bytes and the same hash.
C19_DifferentMapsDiffer ==
  canon.done =>
    /\ (canon.a = PayloadA /\ canon.b \in Orderings(PayloadB)) =>
         (canon.bytesA # canon.bytesB /\ canon.hashA # canon.hashB)
    /\ (canon.a = PayloadB /\ canon.b \in Orderings(PayloadB)) =>
         (canon.bytesA = canon.bytesB /\ canon.hashA = canon.hashB)

\* the two payloads of the scenario went through the canonicalizer
C19_Witness ==
  /\ canon.done
  /\ canon.a = PayloadA
  /\ canon.b = PayloadB
  /\ canon.hashA # canon.hashB

\* C20: an add on a chain whose identity has no private key fails with a
\* signing-unavailable error of its own.
C20_SigningUnavailable ==
  addError # NoError => addError.name = "SigningUnavailableError"

\* C21: every attempt to save or initialize an identity at a path where an
\* identity file already exists is rejected, and the file keeps the keypair
\* it held.
C21_NeverOverwrites ==
  identity.attempt.existed =>
    /\ identity.attempt.rejected
    /\ identity.files[identity.attempt.path] = identity.attempt.before

\* C25: a ProofChain opened over a chain file holds the metadata of its own
\* keypair only: a file whose embedded public key is another one is an
\* error at load time and never becomes the state of an open chain.
C25_IdentityMismatchReported ==
  \A w \in Writers :
    (chain[w].state = "open" /\ chain[w].storePath)
      => Get(chain[w].metadata, "publicKey") = chain[w].keypair.publicKey

TimeOf(k) == getTime(Get(SubjectProofs[k], "timestamp"))
HasEntry(entries, kind, index) ==
  \E j \in 1..Len(entries) : entries[j].kind = kind /\ entries[j].index = index
ClockChecked == last.fn = "verifyChain" /\ ~last.threw /\ tampered = NotTampered

\* C22 as stated: verifyChain on an untampered chain returns valid: true
\* with no error, and a proof earlier than its predecessor by less than one
\* minute produces no warning.
C22_ToleranceAboutOneMinute ==
  ClockChecked =>
    /\ last.out.valid /\ last.out.errors = <<>>
    /\ \A k \in 2..Len(SubjectProofs) :
         TimeOf(k - 1) - TimeOf(k) < FutureTolerance
           => ~HasEntry(last.out.warnings, "earlier_timestamp", k - 1)

\* C22: verifyChain on an untampered chain returns valid: true with no
\* error whatever the timestamps are; a proof gets the ordering warning
\* exactly when it is earlier than its predecessor by more than one second,
\* and the future-timestamp warning exactly when it is more than one minute
\* ahead of the verifier's clock.
C22_OneSecondOrderTolerance ==
  ClockChecked =>
    /\ last.out.valid /\ last.out.errors = <<>>
    /\ \A k \in 2..Len(SubjectProofs) :
         HasEntry(last.out.warnings, "earlier_timestamp", k - 1)
           <=> TimeOf(k - 1) - TimeOf(k) > OrderTolerance
    /\ \A k \in 1..Len(SubjectProofs) :
         HasEntry(last.out.warnings, "proof", k - 1)
           <=> TimeOf(k) > last.now + FutureTolerance

\* a chain whose second proof is two or three seconds earlier than its
\* first has been verified: it is valid and carries the ordering warning
C22_Witness ==
  /\ ClockChecked
  /\ Len(SubjectProofs) = 2
  /\ TimeOf(1) - TimeOf(2) > OrderTolerance
  /\ TimeOf(1) - TimeOf(2) < FutureTolerance
  /\ HasEntry(last.out.warnings, "earlier_timestamp", 1)
  /\ last.out.valid

\* C23 as stated: the two contracts make the same canonical bytes of a
\* record, and the signature createProof puts on a proof is accepted by the
\* message verifier and the one signMessage puts on it by the proof verifier.
C23_OneSigningContract ==
  contract.step = "verified" =>
    /\ contract.bytesProof = contract.bytesMessage
    /\ contract.proofByMessage
    /\ contract.messageByProof

\* C23: the two contracts make the same canonical bytes of a record, but
\* signMessage signs every field except signature while createProof signs
\* the seven proof-data fields and leaves hash out: on a proof neither
\* signature is accepted by the other verifier, on the seven fields alone
\* both are.
C23_SameBytesOtherFields ==
  contract.step = "verified" =>
    /\ contract.bytesProof = contract.bytesMessage
    /\ ~contract.proofByMessage
    /\ ~contract.messageByProof
    /\ contract.dataByMessage
    /\ contract.dataByProof

\* a record whose nested payload is not in key order went through both
C23_Witness ==
  /\ contract.step = "verified"
  /\ contract.params.data # sortKeys(contract.params.data)
  /\ Obj(SortMembers(contract.params.data.kv)) # sortKeys(contract.params.data)
  /\ contract.dataByMessage

HasKind(entries, kind) == \E j \in 1..Len(entries) : entries[j].kind = kind
ReorderChecked ==
  /\ last.fn = "verifyChain" /\ ~last.threw
  /\ tampered.kind \in {"swap", "remove", "insert"}
ChainBreakReported == (~last.out.valid) /\ HasKind(last.out.errors, "chain_break")

C26_AddAllOrNothing ==
  [][(addError' # addError /\ addError'.w # "none")
       => (chain' = chain /\ file' = file)]_vars

\* C27: when verifyExportedChain returned valid: true for a non-empty
\* exported chain, metadata.agentId is deriveAgentId(metadata.publicKey) and
\* is the agentId of every proof of the chain.
C27_MetadataAgentIdBound ==
  (/\ last.fn = "verifyExportedChain" /\ ~last.threw
   /\ last.out.valid
   /\ Len(SubjectProofs) > 0)
    => /\ Get(Get(subject, "metadata"), "agentId") = deriveAgentId(OwnerKey)
       /\ \A k \in 1..Len(SubjectProofs) :
            Get(SubjectProofs[k], "agentId") = Get(Get(subject, "metadata"), "agentId")

\* C28: a request signed with its sender's key that arrives after the agent
\* processed a hello from that sender is accepted and dispatched, and the
\* processing of a message leaves the public key registered for its sender
\* as it was.
C28_HelloKeepsSenderAccepted ==
  LET h == agent.handled
  IN /\ (h.type = "request" /\ h.signer = h.from /\ h.greeted)
          => (h.error = "null" /\ h.dispatched = "request")
     /\ (h.from # "none" /\ h.before.known /\ h.before.publicKey # Null)
          => h.after.publicKey = h.before.publicKey

\* C29: the hash of an envelope is the same every time it is taken, and two
\* envelopes whose source or proof differ have different hashes.
C29_HashBindsContent ==
  envelopes.step \in {"hashed", "attested"} =>
    /\ envelopes.again = envelopes.hashA
    /\ (\/ Get(envelopes.envA, "source") # Get(envelopes.envB, "source")
        \/ Get(envelopes.envA, "proof") # Get(envelopes.envB, "proof"))
         => envelopes.hashA # envelopes.hashB

\* C30: a fetch of a client constructed with maxRetries = n makes at most
\* n + 1 requests, makes a further request only after a retryable status or
\* error, and ends returned, returned from the stale cache, or thrown.
C30_AtMostNPlusOneAttempts ==
  /\ retry.attempts <= retry.n + 1
  /\ (retry.state = "fetching" /\ retry.attempts > 0) => isRetryable(retry.lastOutcome)
  /\ retry.state \in {"none", "idle", "fetching", "returned", "stale", "thrown"}

====
